---- MODULE Spec2Model ----
(***************************************************************************)
(* Global-shortcut registry, matching engine and dispatch handler of the   *)
(* desktop shell (src-tauri/src/desktop): hotkey.rs, setup.rs,             *)
(* text_selection.rs and window.rs.                                        *)
(*                                                                         *)
(* Shortcut strings are TLA+ strings; the string functions of the Rust     *)
(* standard library used by the code (to_lowercase, contains, replace,     *)
(* split, sort, join) are computed character by character.                 *)
(***************************************************************************)
EXTENDS Integers, Sequences, FiniteSets, TLC

(***************************************************************************)
(* Characters and strings                                                  *)
(***************************************************************************)

\* The grave accent (U+0060).  A TLA+ string literal cannot hold that character,
\* so it is written as the apostrophe, which no shortcut string uses otherwise.
Backtick == "'"

\* The ASCII characters that occur in shortcut strings, in ASCII order (the
\* grave accent, code 96, lies between "Z" and "a").
Alphabet == " +-0123456789ABCDEFGHIJKLMNOPQRSTUVWXYZ'abcdefghijklmnopqrstuvwxyz"

UpperChars == "ABCDEFGHIJKLMNOPQRSTUVWXYZ"

LowerChars == "abcdefghijklmnopqrstuvwxyz"

CharAt(s, i) == SubSeq(s, i, i)

\* Position of a character in ASCII order (0 for a character outside Alphabet).
CharCode(c) ==
    IF \E i \in 1..Len(Alphabet) : CharAt(Alphabet, i) = c
    THEN CHOOSE i \in 1..Len(Alphabet) : CharAt(Alphabet, i) = c
    ELSE 0

\* char::to_lowercase on ASCII.
LowerChar(c) ==
    IF \E i \in 1..Len(UpperChars) : CharAt(UpperChars, i) = c
    THEN CharAt(LowerChars, CHOOSE i \in 1..Len(UpperChars) : CharAt(UpperChars, i) = c)
    ELSE c

RECURSIVE LowerFrom(_, _)
LowerFrom(s, i) ==
    IF i > Len(s) THEN "" ELSE LowerChar(CharAt(s, i)) \o LowerFrom(s, i + 1)

\* str::to_lowercase
to_lowercase(s) == LowerFrom(s, 1)

\* pat occurs in s at position i
MatchAt(s, pat, i) ==
    /\ i + Len(pat) - 1 <= Len(s)
    /\ SubSeq(s, i, i + Len(pat) - 1) = pat

\* str::contains
contains(s, pat) == \E i \in 1..(Len(s) + 1) : MatchAt(s, pat, i)

RECURSIVE ReplaceFrom(_, _, _, _)
ReplaceFrom(s, from, to, i) ==
    IF i > Len(s) THEN ""
    ELSE IF MatchAt(s, from, i)
         THEN to \o ReplaceFrom(s, from, to, i + Len(from))
         ELSE CharAt(s, i) \o ReplaceFrom(s, from, to, i + 1)

\* str::replace: every non-overlapping match of a non-empty pattern, left to right.
replace(s, from, to) == ReplaceFrom(s, from, to, 1)

RECURSIVE SplitFrom(_, _, _)
SplitFrom(s, i, cur) ==
    IF i > Len(s) THEN <<cur>>
    ELSE IF CharAt(s, i) = "+"
         THEN <<cur>> \o SplitFrom(s, i + 1, "")
         ELSE SplitFrom(s, i + 1, cur \o CharAt(s, i))

\* str::split on the plus sign: always at least one part; an empty string gives one empty part.
split(s) == SplitFrom(s, 1, "")

RECURSIVE StrLess(_, _)
\* Byte-wise lexicographic order of &str (Ord for str).
StrLess(a, b) ==
    IF Len(b) = 0 THEN FALSE
    ELSE IF Len(a) = 0 THEN TRUE
    ELSE IF CharAt(a, 1) = CharAt(b, 1)
         THEN StrLess(SubSeq(a, 2, Len(a)), SubSeq(b, 2, Len(b)))
         ELSE CharCode(CharAt(a, 1)) < CharCode(CharAt(b, 1))

RECURSIVE InsertSorted(_, _)
InsertSorted(x, sorted) ==
    IF sorted = <<>> THEN <<x>>
    ELSE IF StrLess(x, Head(sorted))
         THEN <<x>> \o sorted
         ELSE <<Head(sorted)>> \o InsertSorted(x, Tail(sorted))

\* Mutation of sort: the slice is left in the order it has.
sort_Unsorted(seq) == seq

RECURSIVE sort(_)
\* slice::sort on Vec<&str>
sort(seq) ==
    IF seq = <<>> THEN <<>>
    ELSE InsertSorted(seq[Len(seq)], sort(SubSeq(seq, 1, Len(seq) - 1)))

RECURSIVE join(_)
\* [&str]::join("+")
join(seq) ==
    IF seq = <<>> THEN ""
    ELSE IF Len(seq) = 1 THEN seq[1]
    ELSE seq[1] \o "+" \o join(Tail(seq))

(***************************************************************************)
(* Shortcut Key Normalizer (the closure inside shortcuts_match)            *)
(***************************************************************************)

\* Mutation of NormalizeText: "command+" is not replaced.
NormalizeText_NoCommandAlias(s) ==
    LET n1 == to_lowercase(s)
        n2 == replace(n1, "commandorcontrol", "control")
        n3 == replace(n2, "key", "")
    IN  replace(n3, "cmd+", "control+")

\* Lines 71-84: lower-casing and the chain of replace calls.
NormalizeText(s) ==
    LET n1 == to_lowercase(s)
        n2 == replace(n1, "commandorcontrol", "control")
        n3 == replace(n2, "key", "")
        n4 == replace(n3, "shift+", "shift+")
        n5 == replace(n4, "control+", "control+")
        n6 == replace(n5, "alt+", "alt+")
        n7 == replace(n6, "cmd+", "control+")
        n8 == replace(n7, "command+", "control+")
    IN  n8

\* Lines 86-95: modifiers sorted, key last.
normalize(s) ==
    LET normalized == NormalizeText(s)
        parts == split(normalized)
    IN  IF Len(parts) > 1
        THEN LET modifiers == sort(SubSeq(parts, 1, Len(parts) - 1))
                 key == parts[Len(parts)]
             IN  join(modifiers) \o "+" \o key
        ELSE normalized

(***************************************************************************)
(* The strings the specifications below draw from, and tables of the       *)
(* string functions over them (computed once, from the definitions above). *)
(***************************************************************************)

\* Arguments of register, unregister and remember.
ShortcutArguments ==
    {"Control+Backquote", "CommandOrControl+Backquote",
     "Control+G", "Control+KeyG", "CommandOrControl+KeyK", "Control+"}

\* Strings the host reports for a pressed combination.
PressedStrings ==
    {"Control+Backquote", "Control+'", "Control+Grave", "Shift+Backquote",
     "Alt+Backquote", "Control+Shift+Backquote", "control+backquote",
     "Control+G", "control+g"}

\* The shortcut setup_text_selection_monitoring binds for a modifier.
TriggerShortcut(modifier) ==
    CASE modifier = "ctrl" -> "Control+Backquote"
      [] modifier = "shift" -> "Shift+Backquote"
      [] modifier = "alt" -> "Alt+Backquote"
      [] OTHER -> "Control+Backquote"

RawStrings ==
    ShortcutArguments \cup PressedStrings
        \cup {TriggerShortcut(m) : m \in {"ctrl", "shift", "alt"}}

RECURSIVE Tabulate(_, _)
\* The function [e \in S |-> F(e)], computed once.
Tabulate(F(_), S) ==
    IF S = {} THEN <<>>
    ELSE LET e == CHOOSE e \in S : TRUE
         IN  (e :> F(e)) @@ Tabulate(F, S \ {e})

Lowered == Tabulate(to_lowercase, RawStrings)

AllStrings == RawStrings \cup {Lowered[s] : s \in RawStrings}

LowerTable == Tabulate(to_lowercase, AllStrings)

NormalizeTable == Tabulate(normalize, AllStrings)

\* Mutation of shortcuts_match: the two strings are only lower-cased.
shortcuts_match_LowercaseOnly(actual, registered) == LowerTable[actual] = LowerTable[registered]

\* Mutation of shortcuts_match: every registered key matches.
shortcuts_match_Always(actual, registered) == TRUE

shortcuts_match(actual, registered) == NormalizeTable[actual] = NormalizeTable[registered]

(***************************************************************************)
(* The windowing host's shortcut parser (shortcut.parse::<Shortcut>()).     *)
(* Two strings name the same OS-level binding iff they parse to the same   *)
(* key combination.                                                        *)
(***************************************************************************)

InvalidShortcut == [mods |-> {}, key |-> ""]

ModifierOf(tok) ==
    CASE tok \in {"control", "ctrl", "commandorcontrol", "cmdorctrl"} -> "control"
      [] tok = "shift" -> "shift"
      [] tok \in {"alt", "option"} -> "alt"
      [] tok \in {"cmd", "command", "super"} -> "super"
      [] OTHER -> ""

KeyOf(tok) ==
    CASE tok \in {Backtick, "backquote"} -> "backquote"
      [] tok = "space" -> "space"
      [] Len(tok) = 1 /\ contains(LowerChars, tok) -> tok
      [] Len(tok) = 4 /\ SubSeq(tok, 1, 3) = "key" /\ contains(LowerChars, CharAt(tok, 4))
            -> CharAt(tok, 4)
      [] OTHER -> ""

ParseShortcut(s) ==
    LET parts == split(to_lowercase(s))
        n == Len(parts)
        mods == {ModifierOf(parts[i]) : i \in 1..(n - 1)}
        key == KeyOf(parts[n])
    IN  IF key = "" \/ "" \in mods THEN InvalidShortcut
        ELSE [mods |-> mods, key |-> key]

ParseTable == Tabulate(ParseShortcut, AllStrings)

(***************************************************************************)
(* State                                                                   *)
(***************************************************************************)

VARIABLES
    registry,   \* REGISTERED_SHORTCUTS: the set of (key, command) pairs of the HashMap
    monitor,    \* TEXT_SELECTION_STATE: [enabled, trigger_modifier]
    osBound,    \* key combinations this process has bound at the OS shortcut facility
    windows,    \* per window label: "absent", "hidden" or "visible"
    size,       \* per auxiliary window: <<width, height>> (<<0, 0>> while absent)
    threads,    \* per thread: the call it is in and the steps it still has to take
    locks,      \* per Mutex: the thread that holds its guard, or "free"
    last        \* the latest call and what it did:
                \*   op, s, c: the call and its arguments (for a press, c is the
                \*     command dispatched);  res: its result (for a press, the
                \*     resolution step that decided);  key: the registry key written
                \*     or resolved;  old: the command HashMap::insert replaced;
                \*     invoked: the collaborators a press called (for a window
                \*     command, the host calls it made);  emitted: whether
                \*     text-selection-detected was emitted;  host: the host's
                \*     answers to a window command;  height: the height a
                \*     resize asked for;  trace: the lock, unlock and host-call
                \*     events of the call, in program order;  failed: the
                \*     action a dispatch chose did not do its work

vars == <<registry, monitor, osBound, windows, size, last, threads, locks>>

QuickLabels == {"quicknote", "quickai", "quicktool"}

\* The main window exists from startup (setup_app); the others are created on demand.
Labels == QuickLabels \cup {"main"}

\* The host answers nothing (a call that asks the host nothing records this).
NoHostCall ==
    [vis |-> FALSE, hide |-> FALSE, show |-> FALSE, pos |-> FALSE,
     focus |-> FALSE, create |-> FALSE]

KnownCommands == {"quicknote", "quickai", "quicktool", "text-selection"}

\* HashMap operations on the set of pairs.
HasKey(map, k) == \E e \in map : e[1] = k

Get(map, k) == (CHOOSE e \in map : e[1] = k)[2]

\* Mutation of Insert: the map is replaced by the one entry.
Insert_ForgetsOthers(map, k, v) == {<<k, v>>}

\* Mutation of Insert: an existing entry is kept (entry().or_insert()).
Insert_KeepExisting(map, k, v) == IF HasKey(map, k) THEN map ELSE map \cup {<<k, v>>}

Insert(map, k, v) == {e \in map : e[1] # k} \cup {<<k, v>>}

Remove(map, k) == {e \in map : e[1] # k}

Call(op, s, c, res) ==
    [op |-> op, s |-> s, c |-> c, res |-> res, key |-> "", old |-> "",
     invoked |-> <<>>, emitted |-> FALSE, host |-> NoHostCall, height |-> 0,
     trace |-> <<>>, failed |-> FALSE]

\* Events of a call: a Mutex guard taken and dropped, and a call into the host.
Locked(lock, inside) == <<<<"lock", lock>>>> \o inside \o <<<<"unlock", lock>>>>

HostCall(name) == <<<<"host", name>>>>

RECURSIVE HostCalls(_)
HostCalls(names) ==
    IF names = <<>> THEN <<>> ELSE HostCall(Head(names)) \o HostCalls(Tail(names))

Traced(call, trace) == [call EXCEPT !.trace = trace]

\* A call that wrote key k, replacing the command stored under it ("" if none).
Wrote(op, s, c, map, k) ==
    [Call(op, s, c, "ok") EXCEPT !.key = k, !.old = IF HasKey(map, k) THEN Get(map, k) ELSE ""]

Threads == {"t1", "t2"}

\* A thread that is in no call: op is the call it returned from and res what
\* that call returned.
NotStarted == [op |-> "none", s |-> "", c |-> "", rest |-> <<>>, local |-> "", res |-> ""]

NoThreads ==
    /\ threads = [t \in Threads |-> NotStarted]
    /\ locks = [l \in {"registry", "monitor"} |-> "free"]

\* A call that runs from its start to its return with no step of another
\* thread in between.
Alone == UNCHANGED <<threads, locks>>

Init ==
    /\ NoThreads
    /\ registry = {}
    /\ monitor = [enabled |-> FALSE, trigger_modifier |-> "ctrl"]
    /\ osBound = {}
    /\ \E m \in {"hidden", "visible"} :
            windows = [l \in Labels |-> IF l = "main" THEN m ELSE "absent"]
    /\ size = [l \in QuickLabels |-> <<0, 0>>]
    /\ last = Call("init", "", "", "ok")

(***************************************************************************)
(* Registration Service (hotkey.rs)                                        *)
(***************************************************************************)

\* Mutation of HostUnbind: the unbind is left out.
HostUnbind_Skipped(bound, h, hostOk) == bound

\* app.global_shortcut().unregister(h): the host's answer is hostOk.
HostUnbind(bound, h, hostOk) == IF hostOk THEN bound \ {h} ELSE bound

\* app.global_shortcut().register(h): refused when h is already bound by this
\* process or when the host refuses it (claimed elsewhere, forbidden).
BindAccepted(bound, h, hostOk) == hostOk /\ h \notin bound

\* What register_hotkey asked of the OS shortcut facility and what it was
\* answered: the calls, whether the combination was bound by this process
\* before the call, and whether the host carried out the unbind and accepted
\* the bind.
AskedFacility(call, wasBound, unbindOk, bindOk) ==
    [call EXCEPT !.invoked = <<"unregister", "register">>,
                 !.host = [was_bound |-> wasBound, unbind |-> unbindOk, bind |-> bindOk]]

\* Mutation of register_hotkey: the mapping is stored before the bind is tried.
register_hotkey_StoresBeforeBind(shortcut, command, unbindOk, bindOk) ==
    LET parsed == ParseTable[shortcut]
        bound1 == HostUnbind(osBound, parsed, unbindOk)
    IN  IF parsed = InvalidShortcut
        THEN /\ last' = Call("register", shortcut, command, "invalid")
             /\ UNCHANGED <<registry, monitor, osBound, windows, size>>
        ELSE /\ registry' = Insert(registry, LowerTable[shortcut], command)
             /\ osBound' = IF BindAccepted(bound1, parsed, bindOk)
                           THEN bound1 \cup {parsed} ELSE bound1
             /\ last' = AskedFacility(
                            IF BindAccepted(bound1, parsed, bindOk)
                            THEN Wrote("register", shortcut, command, registry,
                                       LowerTable[shortcut])
                            ELSE Call("register", shortcut, command, "os_error"),
                            parsed \in osBound, unbindOk, bindOk)
             /\ UNCHANGED <<monitor, windows, size>>

register_hotkey(shortcut, command, unbindOk, bindOk) ==
    LET parsed == ParseTable[shortcut]
        bound1 == HostUnbind(osBound, parsed, unbindOk)
    IN  IF parsed = InvalidShortcut
        THEN /\ last' = Call("register", shortcut, command, "invalid")
             /\ UNCHANGED <<registry, monitor, osBound, windows, size>>
        ELSE IF ~BindAccepted(bound1, parsed, bindOk)
        THEN /\ osBound' = bound1
             /\ last' = Traced(AskedFacility(Call("register", shortcut, command, "os_error"),
                                             parsed \in osBound, unbindOk, bindOk),
                               HostCall("unregister") \o HostCall("register"))
             /\ UNCHANGED <<registry, monitor, windows, size>>
        ELSE /\ osBound' = bound1 \cup {parsed}
             /\ registry' = Insert(registry, LowerTable[shortcut], command)
             /\ last' = Traced(AskedFacility(Wrote("register", shortcut, command, registry,
                                                   LowerTable[shortcut]),
                                             parsed \in osBound, unbindOk, bindOk),
                               HostCall("unregister") \o HostCall("register")
                                   \o Locked("registry", <<>>))
             /\ UNCHANGED <<monitor, windows, size>>

unregister_hotkey(shortcut, unbindOk) ==
    LET parsed == ParseTable[shortcut]
    IN  IF parsed = InvalidShortcut
        THEN /\ last' = Call("unregister", shortcut, "", "invalid")
             /\ UNCHANGED <<registry, monitor, osBound, windows, size>>
        ELSE IF ~unbindOk
        THEN /\ last' = Traced(Call("unregister", shortcut, "", "os_error"),
                               HostCall("unregister"))
             /\ UNCHANGED <<registry, monitor, osBound, windows, size>>
        ELSE /\ osBound' = HostUnbind(osBound, parsed, TRUE)
             /\ registry' = Remove(registry, LowerTable[shortcut])
             /\ last' = Traced(Call("unregister", shortcut, "", "ok"),
                               HostCall("unregister") \o Locked("registry", <<>>))
             /\ UNCHANGED <<monitor, windows, size>>

\* The snapshot (clone) of the map that callers and the dispatch handler read.
get_registered_shortcuts == registry

register_shortcut_command(shortcut, command) ==
    /\ registry' = Insert(registry, LowerTable[shortcut], command)
    /\ last' = Traced(Wrote("remember", shortcut, command, registry, LowerTable[shortcut]),
                      Locked("registry", <<>>))
    /\ UNCHANGED <<monitor, osBound, windows, size>>

(***************************************************************************)
(* Text-Selection Trigger state (text_selection.rs)                        *)
(***************************************************************************)

setup_text_selection_monitoring(enabled, trigger_modifier, hostOk) ==
    IF enabled
    THEN LET shortcut_str == TriggerShortcut(trigger_modifier)
             parsed == ParseTable[shortcut_str]
         IN  /\ monitor' = [enabled |-> TRUE, trigger_modifier |-> trigger_modifier]
             /\ IF ~BindAccepted(osBound, parsed, hostOk)
                THEN /\ last' = Traced(Call("set_monitoring", trigger_modifier, "enable",
                                            "os_error"),
                                       Locked("monitor", HostCall("register")))
                     /\ UNCHANGED <<registry, osBound, windows, size>>
                ELSE /\ osBound' = osBound \cup {parsed}
                     /\ registry' = Insert(registry, LowerTable[LowerTable[shortcut_str]],
                                           "text-selection")
                     /\ last' = Traced(Wrote("set_monitoring", trigger_modifier, "enable",
                                             registry, LowerTable[LowerTable[shortcut_str]]),
                                       Locked("monitor", HostCall("register")
                                                \o Locked("registry", <<>>)))
                     /\ UNCHANGED <<windows, size>>
    ELSE LET shortcut_str == TriggerShortcut(monitor.trigger_modifier)
             parsed == ParseTable[shortcut_str]
         IN  /\ monitor' = [monitor EXCEPT !.enabled = FALSE]
             /\ osBound' = HostUnbind(osBound, parsed, hostOk)
             /\ last' = Traced(Call("set_monitoring", trigger_modifier, "disable", "ok"),
                               Locked("monitor", HostCall("unregister")))
             /\ UNCHANGED <<registry, windows, size>>

is_text_selection_enabled_for(modifier) ==
    monitor.enabled /\ monitor.trigger_modifier = modifier

(***************************************************************************)
(* Window Toggle Controller (window.rs).  host holds the answers of the    *)
(* windowing host to the calls one handler run makes:                      *)
(*   vis: is_visible answers, hide/show/pos/focus/create: the call works.  *)
(* Every operator returns [w, ok, ...]: the windows afterwards, whether it  *)
(* returned Ok, and (host_calls) the host calls it made.                   *)
(***************************************************************************)

QUICKTOOL_WIDTH == 190

QUICKTOOL_HEIGHT == 35

HostOutcomes ==
    [vis : BOOLEAN, hide : BOOLEAN, show : BOOLEAN, pos : BOOLEAN,
     focus : BOOLEAN, create : BOOLEAN]

\* Answers of the OS selection service to one capture.
Selections ==
    {[ok |-> FALSE, text |-> ""], [ok |-> TRUE, text |-> " "],
     [ok |-> TRUE, text |-> " a "], [ok |-> TRUE, text |-> "ab"]}

\* The width and height in the QuickWindowConfig of each auxiliary window.
ConfigSize(label) ==
    CASE label = "quicknote" -> <<600, 150>>
      [] label = "quickai" -> <<600, 125>>
      [] label = "quicktool" -> <<QUICKTOOL_WIDTH, QUICKTOOL_HEIGHT>>

\* inner_size(config.width, config.height): a window that was built has the
\* size of its configuration; nothing else here changes a size.
SizeAfter(before, after, sz) ==
    [l \in QuickLabels |->
        IF before[l] = "absent" /\ after[l] # "absent" THEN ConfigSize(l) ELSE sz[l]]

create_quick_window(w, label, host) ==
    IF host.create
    THEN [w |-> [w EXCEPT ![label] = "visible"], ok |-> TRUE, host_calls |-> <<"build">>]
    ELSE [w |-> w, ok |-> FALSE, host_calls |-> <<"build">>]

\* Mutation of toggle_window: an existing window is always shown.
toggle_window_AlwaysShows(w, label, host) ==
    IF w[label] = "absent"
    THEN [w |-> w, ok |-> FALSE, host_calls |-> <<>>]
    ELSE [w |-> IF host.show THEN [w EXCEPT ![label] = "visible"] ELSE w, ok |-> TRUE,
          host_calls |-> <<"is_visible", "show", "set_focus">>]

\* Mutation of toggle_window: a failed visibility query counts as visible.
toggle_window_QueryFailureHides(w, label, host) ==
    IF w[label] = "absent"
    THEN [w |-> w, ok |-> FALSE, host_calls |-> <<>>]
    ELSE IF ~host.vis \/ w[label] = "visible"
    THEN [w |-> IF host.hide THEN [w EXCEPT ![label] = "hidden"] ELSE w, ok |-> TRUE,
          host_calls |-> <<"is_visible", "hide">>]
    ELSE [w |-> IF host.show THEN [w EXCEPT ![label] = "visible"] ELSE w, ok |-> TRUE,
          host_calls |-> <<"is_visible", "show", "set_focus">>]

\* host.vis: is_visible answered (Ok); when it did not (Err) the window is
\* treated as not visible.
toggle_window(w, label, host) ==
    IF w[label] = "absent"
    THEN [w |-> w, ok |-> FALSE, host_calls |-> <<>>]
    ELSE IF host.vis /\ w[label] = "visible"
    THEN [w |-> IF host.hide THEN [w EXCEPT ![label] = "hidden"] ELSE w, ok |-> TRUE,
          host_calls |-> <<"is_visible", "hide">>]
    ELSE [w |-> IF host.show THEN [w EXCEPT ![label] = "visible"] ELSE w, ok |-> TRUE,
          host_calls |-> <<"is_visible", "show", "set_focus">>]

ToggleQuick(w, label, host) ==
    LET t == toggle_window(w, label, host)
    IN  IF t.ok THEN t ELSE create_quick_window(w, label, host)

toggle_quicknote_window(w, host) == ToggleQuick(w, "quicknote", host)

\* Mutation of toggle_quickai_window: it toggles the quicknote window.
toggle_quickai_window_Quicknote(w, host) == ToggleQuick(w, "quicknote", host)

toggle_quickai_window(w, host) == ToggleQuick(w, "quickai", host)

toggle_quicktool_window(w, host) == ToggleQuick(w, "quicktool", host)

\* Mutation of toggle_editor_window: a visible main window is hidden whether
\* or not it has the focus.
toggle_editor_window_HidesUnfocused(w, focused, host) ==
    IF w["main"] = "absent"
    THEN [w |-> w, ok |-> FALSE, host_calls |-> <<>>]
    ELSE IF host.vis /\ w["main"] = "visible"
    THEN [w |-> IF host.hide THEN [w EXCEPT !["main"] = "hidden"] ELSE w, ok |-> TRUE,
          host_calls |-> <<"is_visible", "is_focused", "hide">>]
    ELSE [w |-> IF host.show THEN [w EXCEPT !["main"] = "visible"] ELSE w, ok |-> TRUE,
          host_calls |-> <<"is_visible", "show", "set_focus", "emit">>]

\* focused is the answer of is_focused().unwrap_or(false).
toggle_editor_window(w, focused, host) ==
    IF w["main"] = "absent"
    THEN [w |-> w, ok |-> FALSE, host_calls |-> <<>>]
    ELSE IF host.vis /\ w["main"] = "visible"
    THEN IF focused
         THEN [w |-> IF host.hide THEN [w EXCEPT !["main"] = "hidden"] ELSE w, ok |-> TRUE,
               host_calls |-> <<"is_visible", "is_focused", "hide">>]
         ELSE [w |-> w, ok |-> TRUE,
               host_calls |-> <<"is_visible", "is_focused", "set_focus", "emit">>]
    ELSE [w |-> IF host.show THEN [w EXCEPT !["main"] = "visible"] ELSE w, ok |-> TRUE,
          host_calls |-> <<"is_visible", "show", "set_focus", "emit">>]

hide_quicktool_window(w, host) ==
    IF w["quicktool"] = "absent"
    THEN [w |-> w, ok |-> FALSE, host_calls |-> <<>>]
    ELSE [w |-> IF host.hide THEN [w EXCEPT !["quicktool"] = "hidden"] ELSE w, ok |-> TRUE,
          host_calls |-> <<"hide">>]

\* Mutation of ConstrainHeight: the upper limit is not applied.
ConstrainHeight_NoMaximum(height) == IF height > 100 THEN height ELSE 100

\* height.max(100.0).min(600.0)
ConstrainHeight(height) ==
    LET raised == IF height > 100 THEN height ELSE 100
    IN  IF raised < 600 THEN raised ELSE 600

\* Mutation of ResizeQuick: the window is not looked up.
ResizeQuick_IgnoresAbsence(w, sz, label, height, setOk) ==
    IF ~setOk
    THEN [size |-> sz, res |-> "host_error"]
    ELSE [size |-> [sz EXCEPT ![label] = <<600, ConstrainHeight(height)>>], res |-> "ok"]

\* resize_quicknote_window and resize_quickai_window have this one body;
\* setOk is the host's answer to set_size.  Returns [size, res].
ResizeQuick(w, sz, label, height, setOk) ==
    IF w[label] = "absent"
    THEN [size |-> sz, res |-> "not_found"]
    ELSE IF ~setOk
    THEN [size |-> sz, res |-> "host_error"]
    ELSE [size |-> [sz EXCEPT ![label] = <<600, ConstrainHeight(height)>>], res |-> "ok"]

resize_quicknote_window(w, sz, height, setOk) == ResizeQuick(w, sz, "quicknote", height, setOk)

resize_quickai_window(w, sz, height, setOk) == ResizeQuick(w, sz, "quickai", height, setOk)

\* Mutation of on_close_requested: the close is not prevented.
on_close_requested_Destroys(w, label, host) ==
    [w |-> [w EXCEPT ![label] = "absent"], ok |-> TRUE, host_calls |-> <<>>]

\* The CloseRequested handler every window gets: prevent_close, then hide
\* (its result is dropped).
on_close_requested(w, label, host) ==
    [w |-> IF host.hide THEN [w EXCEPT ![label] = "hidden"] ELSE w, ok |-> TRUE,
     host_calls |-> <<"prevent_close", "hide">>]

(***************************************************************************)
(* Text-selection collaborator (text_selection.rs)                         *)
(***************************************************************************)

RECURSIVE TrimStart(_)
TrimStart(s) ==
    IF Len(s) > 0 /\ CharAt(s, 1) = " " THEN TrimStart(SubSeq(s, 2, Len(s))) ELSE s

RECURSIVE TrimEnd(_)
TrimEnd(s) ==
    IF Len(s) > 0 /\ CharAt(s, Len(s)) = " " THEN TrimEnd(SubSeq(s, 1, Len(s) - 1)) ELSE s

\* str::trim
trim(s) == TrimEnd(TrimStart(s))

\* sel is the answer of the OS selection service: [ok, text].
get_selected_text_directly(sel) ==
    IF sel.ok /\ Len(trim(sel.text)) # 0
    THEN [ok |-> TRUE, text |-> sel.text]
    ELSE [ok |-> FALSE, text |-> ""]

show_quicktool_window_at_position(w, host) ==
    IF w["quicktool"] # "absent"
    THEN IF ~host.pos THEN [w |-> w, ok |-> FALSE, calls |-> <<>>]
         ELSE IF ~host.show THEN [w |-> w, ok |-> FALSE, calls |-> <<>>]
         ELSE [w |-> [w EXCEPT !["quicktool"] = "visible"], ok |-> host.focus, calls |-> <<>>]
    ELSE LET t == toggle_quicktool_window(w, host)
         IN  [w |-> t.w, ok |-> t.ok, calls |-> <<"toggle_quicktool_window">>]

\* Mutation of handle_text_selection: the event is sent whether or not the
\* window could be shown.
handle_text_selection_EmitsAnyway(w, sel, host) ==
    LET got == get_selected_text_directly(sel)
    IN  IF ~(got.ok /\ Len(got.text) # 0 /\ Len(trim(got.text)) > 1)
        THEN [w |-> w, calls |-> <<>>, emitted |-> FALSE, failed |-> ~got.ok]
        ELSE IF w["quicktool"] # "absent" /\ host.vis /\ w["quicktool"] = "visible"
        THEN [w |-> IF host.hide THEN [w EXCEPT !["quicktool"] = "hidden"] ELSE w,
              calls |-> <<>>, emitted |-> FALSE, failed |-> ~host.hide]
        ELSE LET shown == show_quicktool_window_at_position(w, host)
             IN  [w |-> shown.w, calls |-> shown.calls, emitted |-> TRUE,
                  failed |-> ~shown.ok]

\* Mutation of handle_text_selection: the length of the captured text is not
\* checked, any text that was read is accepted.
handle_text_selection_AcceptsShortText(w, sel, host) ==
    LET got == get_selected_text_directly(sel)
    IN  IF ~got.ok
        THEN [w |-> w, calls |-> <<>>, emitted |-> FALSE, failed |-> TRUE]
        ELSE IF w["quicktool"] # "absent" /\ host.vis /\ w["quicktool"] = "visible"
        THEN [w |-> IF host.hide THEN [w EXCEPT !["quicktool"] = "hidden"] ELSE w,
              calls |-> <<>>, emitted |-> FALSE, failed |-> ~host.hide]
        ELSE LET shown == show_quicktool_window_at_position(w, host)
             IN  [w |-> shown.w, calls |-> shown.calls, emitted |-> shown.ok,
                  failed |-> ~shown.ok]

\* Returns [w, calls, emitted, failed]; failed: one of the eprintln! arms ran
\* (the text could not be read, hide or show returned Err).
handle_text_selection(w, sel, host) ==
    LET got == get_selected_text_directly(sel)
    IN  IF ~(got.ok /\ Len(got.text) # 0 /\ Len(trim(got.text)) > 1)
        THEN [w |-> w, calls |-> <<>>, emitted |-> FALSE, failed |-> ~got.ok]
        ELSE IF w["quicktool"] # "absent" /\ host.vis /\ w["quicktool"] = "visible"
        THEN [w |-> IF host.hide THEN [w EXCEPT !["quicktool"] = "hidden"] ELSE w,
              calls |-> <<>>, emitted |-> FALSE, failed |-> ~host.hide]
        ELSE LET shown == show_quicktool_window_at_position(w, host)
             IN  [w |-> shown.w, calls |-> shown.calls, emitted |-> shown.ok,
                  failed |-> ~shown.ok]

(***************************************************************************)
(* Dispatch Handler (create_global_shortcut_handler in setup.rs)           *)
(***************************************************************************)

\* Mutation of HasBacktickKey: only the spelling Backquote is recognised.
HasBacktickKey_BackquoteOnly(s) == contains(s, "Backquote")

HasBacktickKey(s) ==
    contains(s, Backtick) \/ contains(s, "Backquote") \/ contains(s, "Grave")

\* Lines 118-151: the if / else-if chain picks one modifier to ask about.
FastPathModifier(s) ==
    IF contains(s, "Control") /\ HasBacktickKey(s) THEN "ctrl"
    ELSE IF contains(s, "Shift") /\ HasBacktickKey(s) THEN "shift"
    ELSE IF contains(s, "Alt") /\ HasBacktickKey(s) THEN "alt"
    ELSE "none"

FastPathTable == Tabulate(FastPathModifier, AllStrings)

FastPathFires(s) ==
    /\ FastPathTable[s] # "none"
    /\ is_text_selection_enabled_for(FastPathTable[s])

\* Lines 189-222: the entries the loop can stop at.  The loop runs over the
\* HashMap in an unspecified order, skips entries that do not match and
\* matching entries with an unknown command, and returns at the first
\* matching entry with a known command: any such entry can be that one.
FuzzyCandidates(shortcuts_map, s) ==
    {e \in shortcuts_map : shortcuts_match(s, e[1]) /\ e[2] \in KnownCommands}

NoResolution == [path |-> "none", key |-> "", cmd |-> ""]

\* Lines 153-224: what the clone of the map resolves a pressed string to.
MapResolutions(shortcuts_map, s) ==
    IF /\ HasKey(shortcuts_map, LowerTable[s])
       /\ Get(shortcuts_map, LowerTable[s]) \in KnownCommands
    THEN {[path |-> "exact", key |-> LowerTable[s],
           cmd |-> Get(shortcuts_map, LowerTable[s])]}
    ELSE IF FuzzyCandidates(shortcuts_map, s) = {}
    THEN {NoResolution}
    ELSE {[path |-> "fuzzy", key |-> e[1], cmd |-> e[2]] :
            e \in FuzzyCandidates(shortcuts_map, s)}

\* The resolutions of a pressed string: [path, key, cmd].
Resolutions(shortcuts_map, s) ==
    IF FastPathFires(s)
    THEN {[path |-> "fast", key |-> "", cmd |-> "text-selection"]}
    ELSE MapResolutions(shortcuts_map, s)

\* Mutation of Resolve: only combinations bound at the OS facility resolve.
Resolve_OnlyBound(app_bound, s) ==
    IF ParseTable[s] \in app_bound
    THEN Resolutions(get_registered_shortcuts, s)
    ELSE {NoResolution}

\* What the closure decides for a pressed string.  Its app handle gives it
\* access to the OS shortcut facility (app_bound); lines 112-224 never ask it.
Resolve(app_bound, s) == Resolutions(get_registered_shortcuts, s)

\* The host refused one of the calls a window command made.
HostRefused(host_calls, host) ==
    \E i \in DOMAIN host_calls :
        \/ host_calls[i] = "is_visible" /\ ~host.vis
        \/ host_calls[i] = "hide" /\ ~host.hide
        \/ host_calls[i] = "show" /\ ~host.show
        \/ host_calls[i] = "set_focus" /\ ~host.focus
        \/ host_calls[i] = "build" /\ ~host.create

\* let _ = toggle_...(app.clone()): the Result of the toggle is dropped.
Dropped(t, name, host) ==
    [w |-> t.w, invoked |-> <<name>>, emitted |-> FALSE,
     failed |-> ~t.ok \/ HostRefused(t.host_calls, host)]

\* Mutation of RunCommand: after a window command the match falls through to
\* the text-selection arm.
RunCommand_FallsThrough(cmd, w, sel, host) ==
    LET first == IF cmd = "quicknote" THEN toggle_quicknote_window(w, host)
                 ELSE IF cmd = "quickai" THEN toggle_quickai_window(w, host)
                 ELSE IF cmd = "quicktool" THEN toggle_quicktool_window(w, host)
                 ELSE [w |-> w, ok |-> TRUE, host_calls |-> <<>>]
        h == handle_text_selection(first.w, sel, host)
    IN  [w |-> h.w,
         invoked |-> (IF cmd = "text-selection" THEN <<>> ELSE <<"toggle_" \o cmd \o "_window">>)
                        \o <<"handle_text_selection">> \o h.calls,
         emitted |-> h.emitted, failed |-> h.failed]

\* The match on the command name: [w, invoked, emitted, failed].
RunCommand(cmd, w, sel, host) ==
    CASE cmd = "quicknote" ->
            Dropped(toggle_quicknote_window(w, host), "toggle_quicknote_window", host)
      [] cmd = "quickai" ->
            Dropped(toggle_quickai_window(w, host), "toggle_quickai_window", host)
      [] cmd = "quicktool" ->
            Dropped(toggle_quicktool_window(w, host), "toggle_quicktool_window", host)
      [] cmd = "text-selection" ->
            LET h == handle_text_selection(w, sel, host)
            IN  [w |-> h.w, invoked |-> <<"handle_text_selection">> \o h.calls,
                 emitted |-> h.emitted, failed |-> h.failed]

WindowStates ==
    {w \in [Labels -> {"absent", "hidden", "visible"}] : w["main"] # "absent"}

\* What one run of a command can do, over the answers of the host and of
\* the selection service (a table, computed once from RunCommand).
OutcomesOf(cmd, w) ==
    {RunCommand(cmd, w, sel, host) : sel \in Selections, host \in HostOutcomes}

OutcomesOfCommand(cmd) ==
    LET F(w) == OutcomesOf(cmd, w)
    IN  Tabulate(F, WindowStates)

CommandOutcomes == Tabulate(OutcomesOfCommand, KnownCommands)

\* An unknown command is logged and nothing else happens.
UnknownCommand(w) == [w |-> w, invoked |-> <<>>, emitted |-> FALSE, failed |-> FALSE]

\* The events of one dispatch: is_text_selection_enabled_for takes and drops
\* the monitor guard when the chain asks about a modifier; off the fast path
\* get_registered_shortcuts takes and drops the Registry guard; the command
\* runs after that.
DispatchTrace(s, r, done) ==
    (IF FastPathTable[s] # "none" THEN Locked("monitor", <<>>) ELSE <<>>)
        \o (IF r.path = "fast" THEN <<>> ELSE Locked("registry", <<>>))
        \o HostCalls(done.invoked)

\* Mutation of IsPressed: the state of the event is not looked at.
IsPressed_AnyState(state) == TRUE

\* event.state == ShortcutState::Pressed
IsPressed(state) == state = "pressed"

\* The name under which an event is recorded in last.
EventOp(state) == IF state = "pressed" THEN "press" ELSE "released"

\* The record of a press that resolved to r and ran to done.
Dispatched(shortcut_str, state, r, done) ==
    [Call(EventOp(state), shortcut_str, r.cmd, r.path) EXCEPT
        !.key = r.key, !.invoked = done.invoked, !.emitted = done.emitted,
        !.trace = DispatchTrace(shortcut_str, r, done), !.failed = done.failed]

\* Mutation of global_shortcut_handler: the entry whose command failed is
\* taken out of the Registry.
global_shortcut_handler_ForgetsOnFailure(shortcut_str, state) ==
    IF ~IsPressed(state)
    THEN /\ last' = Call(EventOp(state), shortcut_str, "", "ignored")
         /\ UNCHANGED <<registry, monitor, osBound, windows, size>>
    ELSE \E r \in Resolve(osBound, shortcut_str) :
         \E done \in (IF r.cmd \in KnownCommands
                      THEN CommandOutcomes[r.cmd][windows]
                      ELSE {UnknownCommand(windows)}) :
            /\ windows' = done.w
            /\ size' = SizeAfter(windows, done.w, size)
            /\ last' = Dispatched(shortcut_str, state, r, done)
            /\ registry' = IF done.failed THEN Remove(registry, r.key) ELSE registry
            /\ UNCHANGED <<monitor, osBound>>

global_shortcut_handler(shortcut_str, state) ==
    IF ~IsPressed(state)
    THEN /\ last' = Call(EventOp(state), shortcut_str, "", "ignored")
         /\ UNCHANGED <<registry, monitor, osBound, windows, size>>
    ELSE \E r \in Resolve(osBound, shortcut_str) :
         \E done \in (IF r.cmd \in KnownCommands
                      THEN CommandOutcomes[r.cmd][windows]
                      ELSE {UnknownCommand(windows)}) :
            /\ windows' = done.w
            /\ size' = SizeAfter(windows, done.w, size)
            /\ last' = Dispatched(shortcut_str, state, r, done)
            /\ UNCHANGED <<registry, monitor, osBound>>

(***************************************************************************)
(* Calls with their arguments drawn from given sets                        *)
(***************************************************************************)

Register(shortcuts, commands) ==
    \E s \in shortcuts, c \in commands, unbindOk \in BOOLEAN, bindOk \in BOOLEAN :
        register_hotkey(s, c, unbindOk, bindOk) /\ Alone

Unregister(shortcuts) ==
    \E s \in shortcuts, unbindOk \in BOOLEAN : unregister_hotkey(s, unbindOk) /\ Alone

Remember(shortcuts, commands) ==
    \E s \in shortcuts, c \in commands : register_shortcut_command(s, c) /\ Alone

SetMonitoring(modifiers) ==
    \E enabled \in BOOLEAN, m \in modifiers, hostOk \in BOOLEAN :
        setup_text_selection_monitoring(enabled, m, hostOk) /\ Alone

\* The command get_registered_shortcuts (list_registered), called by the front end.
ListRegistered ==
    /\ last' = Traced(Call("list", "", "", "ok"), Locked("registry", <<>>))
    /\ UNCHANGED <<registry, monitor, osBound, windows, size>>
    /\ Alone

ShortcutEvent(pressed) ==
    \E s \in pressed, state \in {"pressed", "released"} :
        global_shortcut_handler(s, state) /\ Alone

\* A window command: the windows and sizes it leaves and the record of the call.
WindowCall(op, label, done, host) ==
    /\ windows' = done.w
    /\ size' = SizeAfter(windows, done.w, size)
    /\ last' = [Call(op, label, "", IF done.ok THEN "ok" ELSE "error") EXCEPT
                    !.old = windows[label], !.invoked = done.host_calls, !.host = host,
                    !.trace = HostCalls(done.host_calls)]
    /\ UNCHANGED <<registry, monitor, osBound>>
    /\ Alone

\* The commands toggle_quicknote_window, toggle_quickai_window and
\* toggle_quicktool_window, called by the front end or the tray menu.
ToggleByLabel(w, label, host) ==
    CASE label = "quicknote" -> toggle_quicknote_window(w, host)
      [] label = "quickai" -> toggle_quickai_window(w, host)
      [] label = "quicktool" -> toggle_quicktool_window(w, host)

Toggle(hosts) ==
    \E label \in QuickLabels, host \in hosts :
        WindowCall("toggle", label, ToggleByLabel(windows, label, host), host)

ToggleEditor(hosts) ==
    \E focused \in BOOLEAN, host \in hosts :
        WindowCall("toggle_editor", "main", toggle_editor_window(windows, focused, host), host)

HideQuicktool(hosts) ==
    \E host \in hosts :
        WindowCall("hide", "quicktool", hide_quicktool_window(windows, host), host)

CloseRequested(hosts) ==
    \E label \in Labels, host \in hosts :
        /\ windows[label] # "absent"
        /\ WindowCall("close", label, on_close_requested(windows, label, host), host)

Resize(heights) ==
    \E label \in {"quicknote", "quickai"}, height \in heights, setOk \in BOOLEAN :
        LET done == IF label = "quicknote"
                    THEN resize_quicknote_window(windows, size, height, setOk)
                    ELSE resize_quickai_window(windows, size, height, setOk)
        IN  /\ size' = done.size
            /\ last' = [Call("resize", label, IF setOk THEN "set_size_ok" ELSE "set_size_err",
                             done.res) EXCEPT
                            !.old = windows[label], !.height = height]
            /\ UNCHANGED <<registry, monitor, osBound, windows>>
            /\ Alone

(***************************************************************************)
(* Spec: the whole subsystem, on spellings of Control+Backquote.           *)
(***************************************************************************)

DispatchShortcuts == {"Control+Backquote", "CommandOrControl+Backquote"}

DispatchCommands == {"quicktool", "future-feature"}

DispatchModifiers == {"ctrl", "shift"}

DispatchPressed ==
    {"Control+Backquote", "Control+'", "Control+Grave", "Shift+Backquote",
     "Control+Shift+Backquote", "control+backquote"}

Next ==
    \/ Register(DispatchShortcuts, DispatchCommands)
    \/ Unregister(DispatchShortcuts)
    \/ Remember(DispatchShortcuts, DispatchCommands)
    \/ SetMonitoring(DispatchModifiers)
    \/ ShortcutEvent(DispatchPressed)

Spec == Init /\ [][Next]_vars

(***************************************************************************)
(* SpecTrigger: the whole subsystem, with every trigger modifier and one   *)
(* user shortcut on the trigger's own combination.                         *)
(***************************************************************************)

TriggerShortcuts == {"Control+Backquote"}

TriggerCommands == {"quicktool"}

TriggerModifiers == {"ctrl", "shift", "alt"}

TriggerPressed ==
    {"Control+Backquote", "Control+'", "Control+Grave", "Shift+Backquote",
     "Alt+Backquote", "Control+Shift+Backquote"}

NextTrigger ==
    \/ Register(TriggerShortcuts, TriggerCommands)
    \/ Unregister(TriggerShortcuts)
    \/ Remember(TriggerShortcuts, TriggerCommands)
    \/ SetMonitoring(TriggerModifiers)
    \/ ShortcutEvent(TriggerPressed)

SpecTrigger == Init /\ [][NextTrigger]_vars

(***************************************************************************)
(* SpecRegistry: the Registration Service and the trigger state, on        *)
(* equivalent spellings of Control+G and on CommandOrControl+KeyK.         *)
(***************************************************************************)

RegistryShortcuts == {"Control+G", "Control+KeyG", "CommandOrControl+KeyK"}

RegistryCommands == {"quicknote", "quickai"}

RegistryModifiers == {"ctrl"}

NextRegistry ==
    \/ Register(RegistryShortcuts, RegistryCommands)
    \/ Unregister(RegistryShortcuts)
    \/ Remember(RegistryShortcuts, RegistryCommands)
    \/ SetMonitoring(RegistryModifiers)

SpecRegistry == Init /\ [][NextRegistry]_vars

(***************************************************************************)
(* SpecCommands: presses that resolve to each of the four commands.        *)
(***************************************************************************)

CommandShortcuts == {"Control+G"}

CommandNames == {"quicknote", "quickai", "quicktool"}

CommandModifiers == {"ctrl"}

CommandPressed == {"Control+G", "Control+Backquote"}

NextCommands ==
    \/ Register(CommandShortcuts, CommandNames)
    \/ SetMonitoring(CommandModifiers)
    \/ ShortcutEvent(CommandPressed)

SpecCommands == Init /\ [][NextCommands]_vars

(***************************************************************************)
(* SpecWindows: the Window Toggle Controller under window commands, close  *)
(* requests, resizes and presses of one registered shortcut.               *)
(***************************************************************************)

HostAllOk ==
    [vis |-> TRUE, hide |-> TRUE, show |-> TRUE, pos |-> TRUE,
     focus |-> TRUE, create |-> TRUE]

\* The host answers every call, fails exactly one kind of call, or fails
\* both the visibility query and the show that follows it.
WindowHosts ==
    {HostAllOk, [HostAllOk EXCEPT !.vis = FALSE], [HostAllOk EXCEPT !.hide = FALSE],
     [HostAllOk EXCEPT !.show = FALSE], [HostAllOk EXCEPT !.create = FALSE],
     [HostAllOk EXCEPT !.vis = FALSE, !.show = FALSE]}

WindowHeights == {50, 350, 900}

WindowShortcuts == {"Control+G"}

WindowCommands == {"quicknote"}

NextWindows ==
    \/ Toggle(WindowHosts)
    \/ ToggleEditor(WindowHosts)
    \/ HideQuicktool(WindowHosts)
    \/ CloseRequested(WindowHosts)
    \/ Resize(WindowHeights)
    \/ Register(WindowShortcuts, WindowCommands)
    \/ ShortcutEvent(WindowShortcuts)

SpecWindows == Init /\ [][NextWindows]_vars

(***************************************************************************)
(* SpecFacility: the Registration Service and the trigger state with an    *)
(* unparsable shortcut string and a modifier name outside ctrl, shift, alt.*)
(***************************************************************************)

FacilityShortcuts == {"Control+G", "Control+Backquote", "Control+"}

FacilityCommands == {"quicknote", "quickai"}

FacilityModifiers == {"ctrl", "shift", "meta"}

NextFacility ==
    \/ Register(FacilityShortcuts, FacilityCommands)
    \/ Unregister(FacilityShortcuts)
    \/ Remember(FacilityShortcuts, FacilityCommands)
    \/ SetMonitoring(FacilityModifiers)
    \/ ListRegistered

SpecFacility == Init /\ [][NextFacility]_vars

(***************************************************************************)
(* The normalizer on its own: a string is handed to the closure, which is  *)
(* applied once, and then once more to its own output.                     *)
(***************************************************************************)

UpperChar(c) ==
    IF \E i \in 1..Len(LowerChars) : CharAt(LowerChars, i) = c
    THEN CharAt(UpperChars, CHOOSE i \in 1..Len(LowerChars) : CharAt(LowerChars, i) = c)
    ELSE c

RECURSIVE UpperFrom(_, _)
UpperFrom(s, i) ==
    IF i > Len(s) THEN "" ELSE UpperChar(CharAt(s, i)) \o UpperFrom(s, i + 1)

\* The spellings of a string that differ in letter case only: as written,
\* lower case, upper case.
Casings(s) == {s, to_lowercase(s), UpperFrom(s, 1)}

NormalizerModifiers == {"Control", "Shift", "Alt", "CommandOrControl", "Cmd", "Command"}

NormalizerKeys == {"G", "KeyG", "K", "Backquote"}

\* Up to three different modifiers, in every order.
ModifierLists ==
    {<<>>} \cup {<<a>> : a \in NormalizerModifiers}
        \cup {m \in NormalizerModifiers \X NormalizerModifiers : m[1] # m[2]}
        \cup {m \in NormalizerModifiers \X NormalizerModifiers \X NormalizerModifiers :
                m[1] # m[2] /\ m[1] # m[3] /\ m[2] # m[3]}

\* The shortcut string with the given modifiers and key.
Render(mods, key) == IF mods = <<>> THEN key ELSE join(mods) \o "+" \o key

\* Strings in which taking out "key", or replacing an alias, leaves a new
\* "key" or a new alias behind.
NestedStrings ==
    {"Control+Kkeyey", "Kkeyey", "Control+KeKeyy", "Cmkeyd+G", "Shift+Ckeymd+Kkeyey",
     "Ccmd+md+G", "Commandorcommandorcontrol+G"}

NormalizerInputs ==
    UNION {Casings(Render(m, k)) : m \in ModifierLists, k \in NormalizerKeys}
        \cup NestedStrings

InitNormalizer ==
    /\ NoThreads
    /\ registry = {}
    /\ monitor = [enabled |-> FALSE, trigger_modifier |-> "ctrl"]
    /\ osBound = {}
    /\ windows = [l \in Labels |-> IF l = "main" THEN "hidden" ELSE "absent"]
    /\ size = [l \in QuickLabels |-> <<0, 0>>]
    /\ last \in {Call("input", s, "", "") : s \in NormalizerInputs}

\* normalize(actual): the closure applied to a string it is given.
NormalizeInput ==
    /\ last.op = "input"
    /\ last' = Call("normalize", last.s, "", normalize(last.s))
    /\ UNCHANGED <<registry, monitor, osBound, windows, size>>
    /\ Alone

\* The closure applied to its own output; c keeps the first output.
NormalizeAgain ==
    /\ last.op = "normalize"
    /\ last' = Call("normalize_again", last.s, last.res, normalize(last.res))
    /\ UNCHANGED <<registry, monitor, osBound, windows, size>>
    /\ Alone

NextNormalizer ==
    \/ NormalizeInput
    \/ NormalizeAgain

SpecNormalizer == InitNormalizer /\ [][NextNormalizer]_vars

(***************************************************************************)
(* The calls step by step, on several threads.  A thread in a call holds   *)
(* the steps the call still has to take (rest); it takes them one at a     *)
(* time, and steps of other threads come in between.                       *)
(*   <<"lock", m>>, <<"unlock", m>>: a Mutex guard taken and dropped       *)
(*   <<"access", a>>: the data behind a held guard read or written         *)
(*   <<"host", c>>: a call into the windowing host                         *)
(*   <<"branch", b>>: a decision on what the thread has read               *)
(*   <<"window", w>>: one call on a window of the host, or a decision on   *)
(*                    its answer                                           *)
(***************************************************************************)

Access(what) == <<<<"access", what>>>>

Branch(on) == <<<<"branch", on>>>>

OnWindow(what) == <<<<"window", what>>>>

\* Mutation of Program: the handler asks the monitor while it holds the
\* Registry guard.
Program_QueryUnderRegistryGuard(op, s) ==
    CASE op = "register" ->
            HostCall("unregister") \o HostCall("register")
                \o Locked("registry", Access("insert"))
      [] op = "unregister" -> HostCall("unregister") \o Locked("registry", Access("remove"))
      [] op = "remember" -> Locked("registry", Access("insert"))
      [] op = "list" -> Locked("registry", Access("clone"))
      [] op = "enable" ->
            Locked("monitor", Access("enable") \o HostCall("register")
                                \o Locked("registry", Access("insert")))
      [] op = "disable" -> Locked("monitor", Access("disable") \o HostCall("unregister"))
      [] op = "dispatch" ->
            Locked("registry", Locked("monitor", Access("query")) \o Access("clone"))
                \o HostCall("command")
      [] op = "toggle" -> OnWindow("find")
      [] op = "selection" -> OnWindow("capture") \o OnWindow("lookup")

\* The steps of each call, in program order.
Program(op, s) ==
    CASE op = "register" ->
            HostCall("unregister") \o HostCall("register")
                \o Locked("registry", Access("insert"))
      [] op = "unregister" -> HostCall("unregister") \o Locked("registry", Access("remove"))
      [] op = "remember" -> Locked("registry", Access("insert"))
      [] op = "list" -> Locked("registry", Access("clone"))
      [] op = "enable" ->
            Locked("monitor", Access("enable") \o HostCall("register")
                                \o Locked("registry", Access("insert")))
      [] op = "disable" -> Locked("monitor", Access("disable") \o HostCall("unregister"))
      [] op = "dispatch" ->
            (IF FastPathTable[s] # "none"
             THEN Locked("monitor", Access("query")) \o Branch("fast")
             ELSE <<>>)
                \o Locked("registry", Access("clone")) \o HostCall("command")
      [] op = "toggle" -> OnWindow("find")
      [] op = "selection" -> OnWindow("capture") \o OnWindow("lookup")

Running(t) == threads[t].rest # <<>>

Instr(t) == Head(threads[t].rest)

\* The thread goes on to its next step.
Proceed(t) == threads' = [threads EXCEPT ![t].rest = Tail(@)]

\* An early return (the ? operator): the guards the thread holds are dropped
\* and nothing else of the call runs.
Unwind(t) ==
    LET Drops(i) == i[1] = "unlock" /\ locks[i[2]] = t
    IN  threads' = [threads EXCEPT ![t].rest = SelectSeq(Tail(@), Drops), ![t].res = "error"]

\* A thread enters a call.
Start(t, calls) ==
    /\ ~Running(t)
    /\ \E call \in calls :
        threads' = [threads EXCEPT ![t] =
                        [op |-> call.op, s |-> call.s, c |-> call.c,
                         rest |-> Program(call.op, call.s), local |-> "", res |-> "ok"]]
    /\ UNCHANGED <<registry, monitor, osBound, windows, size, last, locks>>

\* Mutex::lock: the thread waits until the guard is free.
Acquire(t) ==
    /\ Running(t)
    /\ Instr(t)[1] = "lock"
    /\ locks[Instr(t)[2]] = "free"
    /\ locks' = [locks EXCEPT ![Instr(t)[2]] = t]
    /\ Proceed(t)
    /\ UNCHANGED <<registry, monitor, osBound, windows, size, last>>

\* The guard goes out of scope.
Release(t) ==
    /\ Running(t)
    /\ Instr(t)[1] = "unlock"
    /\ locks' = [locks EXCEPT ![Instr(t)[2]] = "free"]
    /\ Proceed(t)
    /\ UNCHANGED <<registry, monitor, osBound, windows, size, last>>

\* The Registry or the monitor state read or written through a held guard.
Touch(t) ==
    /\ Running(t)
    /\ Instr(t)[1] = "access"
    /\ LET me == threads[t]
           what == Instr(t)[2]
       IN  CASE what = "insert" ->
                    /\ registry' = IF me.op = "enable"
                                   THEN Insert(registry, LowerTable[LowerTable[me.local]],
                                               "text-selection")
                                   ELSE Insert(registry, LowerTable[me.s], me.c)
                    /\ Proceed(t)
                    /\ UNCHANGED monitor
             [] what = "remove" ->
                    /\ registry' = Remove(registry, LowerTable[me.s])
                    /\ Proceed(t)
                    /\ UNCHANGED monitor
             [] what = "clone" ->
                    /\ IF me.op = "dispatch"
                       THEN \E r \in MapResolutions(registry, me.s) :
                                threads' = [threads EXCEPT ![t].rest = Tail(@),
                                                           ![t].local = r.cmd]
                       ELSE Proceed(t)
                    /\ UNCHANGED <<registry, monitor>>
             [] what = "enable" ->
                    /\ monitor' = [enabled |-> TRUE, trigger_modifier |-> me.s]
                    /\ threads' = [threads EXCEPT ![t].rest = Tail(@),
                                                  ![t].local = TriggerShortcut(me.s)]
                    /\ UNCHANGED registry
             [] what = "disable" ->
                    /\ monitor' = [monitor EXCEPT !.enabled = FALSE]
                    /\ threads' = [threads EXCEPT ![t].rest = Tail(@),
                                        ![t].local = TriggerShortcut(monitor.trigger_modifier)]
                    /\ UNCHANGED registry
             [] what = "query" ->
                    /\ threads' = [threads EXCEPT ![t].rest = Tail(@),
                                        ![t].local = IF FastPathFires(me.s) THEN "fast" ELSE ""]
                    /\ UNCHANGED <<registry, monitor>>
    /\ UNCHANGED <<osBound, windows, size, last, locks>>

\* Lines 116-151: with monitoring on for the modifier, the handler calls the
\* text-selection collaborator and returns.
Decide(t) ==
    /\ Running(t)
    /\ Instr(t)[1] = "branch"
    /\ threads' = IF threads[t].local = "fast"
                  THEN [threads EXCEPT ![t].rest = HostCall("command"),
                                       ![t].local = "text-selection"]
                  ELSE [threads EXCEPT ![t].rest = Tail(@)]
    /\ UNCHANGED <<registry, monitor, osBound, windows, size, last, locks>>

\* A call into the host: the OS shortcut facility, or the command of a press.
\* The host answers and returns; it does not call back into these calls.
Host(t, hosts, selections) ==
    /\ Running(t)
    /\ Instr(t)[1] = "host"
    /\ LET me == threads[t]
           name == Instr(t)[2]
           shortcut == IF me.op \in {"enable", "disable"} THEN me.local ELSE me.s
       IN  CASE name = "unregister" ->
                    \E ok \in BOOLEAN :
                        /\ osBound' = HostUnbind(osBound, ParseTable[shortcut], ok)
                        /\ IF me.op = "unregister" /\ ~ok THEN Unwind(t) ELSE Proceed(t)
                        /\ UNCHANGED <<windows, size>>
             [] name = "register" ->
                    \E ok \in BOOLEAN :
                        /\ IF BindAccepted(osBound, ParseTable[shortcut], ok)
                           THEN osBound' = osBound \cup {ParseTable[shortcut]} /\ Proceed(t)
                           ELSE UNCHANGED osBound /\ Unwind(t)
                        /\ UNCHANGED <<windows, size>>
             [] name = "command" ->
                    /\ IF me.local \in KnownCommands
                       THEN \E sel \in selections, host \in hosts :
                                LET done == RunCommand(me.local, windows, sel, host)
                                IN  /\ windows' = done.w
                                    /\ size' = SizeAfter(windows, done.w, size)
                       ELSE UNCHANGED <<windows, size>>
                    /\ Proceed(t)
                    /\ UNCHANGED osBound
    /\ UNCHANGED <<registry, monitor, last, locks>>

\* The thread goes on with the steps first, and then with what it had left.
Continue(t, first) == threads' = [threads EXCEPT ![t].rest = first \o Tail(@)]

\* toggle_window and the toggle command around it (window.rs:52-70, 208-226),
\* and handle_text_selection with show_quicktool_window_at_position
\* (text_selection.rs:210-347), one host call at a time.  The label is the
\* thread's s.  The host carries out every call, except that it builds no
\* second window under a label that exists.
Window(t, selections) ==
    /\ Running(t)
    /\ Instr(t)[1] = "window"
    /\ LET me == threads[t]
           what == Instr(t)[2]
           exists == windows[me.s] # "absent"
       IN  CASE what = "find" ->         \* toggle_window: get_webview_window(label)
                    /\ threads' = [threads EXCEPT
                                    ![t].rest = (IF exists THEN OnWindow("is_visible")
                                                 ELSE OnWindow("build")) \o Tail(@),
                                    ![t].local = windows[me.s]]
                    /\ UNCHANGED <<windows, size, last>>
             [] what = "is_visible" ->   \* toggle_window: match window.is_visible()
                    /\ Continue(t, IF windows[me.s] = "visible" THEN OnWindow("hide")
                                   ELSE OnWindow("show") \o OnWindow("set_focus"))
                    /\ UNCHANGED <<windows, size, last>>
             [] what = "hide" ->
                    /\ windows' = [windows EXCEPT ![me.s] = "hidden"]
                    /\ Proceed(t)
                    /\ UNCHANGED <<size, last>>
             [] what = "show" ->
                    /\ windows' = [windows EXCEPT ![me.s] = "visible"]
                    /\ Proceed(t)
                    /\ UNCHANGED <<size, last>>
             [] what \in {"set_focus", "set_position"} ->
                    /\ Proceed(t)
                    /\ UNCHANGED <<windows, size, last>>
             [] what = "build" ->        \* create_quick_window: WebviewWindowBuilder::build
                    /\ IF exists
                       THEN UNCHANGED <<windows, size>> /\ Unwind(t)
                       ELSE /\ windows' = [windows EXCEPT ![me.s] = "visible"]
                            /\ size' = [size EXCEPT ![me.s] = ConfigSize(me.s)]
                            /\ Proceed(t)
                    /\ UNCHANGED last
             [] what = "capture" ->      \* get_selected_text_directly
                    /\ \E sel \in selections :
                            IF sel.ok /\ Len(trim(sel.text)) > 1
                            THEN Proceed(t)
                            ELSE threads' = [threads EXCEPT ![t].rest = <<>>]
                    /\ UNCHANGED <<windows, size, last>>
             [] what = "lookup" ->       \* handle_text_selection: get_webview_window
                    /\ Continue(t, IF exists THEN OnWindow("visible?")
                                   ELSE OnWindow("lookup_again") \o OnWindow("emit"))
                    /\ UNCHANGED <<windows, size, last>>
             [] what = "visible?" ->     \* handle_text_selection: match window.is_visible()
                    /\ Continue(t, IF windows[me.s] = "visible" THEN OnWindow("hide")
                                   ELSE OnWindow("lookup_again") \o OnWindow("emit"))
                    /\ UNCHANGED <<windows, size, last>>
             [] what = "lookup_again" -> \* show_quicktool_window_at_position
                    /\ Continue(t, IF exists
                                   THEN OnWindow("set_position") \o OnWindow("show")
                                            \o OnWindow("set_focus")
                                   ELSE OnWindow("find"))
                    /\ UNCHANGED <<windows, size, last>>
             [] what = "emit" ->         \* send_text_selection_event
                    /\ last' = [Call("emit", me.s, "text-selection-detected", "ok") EXCEPT
                                    !.old = windows[me.s], !.emitted = TRUE]
                    /\ Proceed(t)
                    /\ UNCHANGED <<windows, size>>
    /\ UNCHANGED <<registry, monitor, osBound, locks>>

(***************************************************************************)
(* SpecThreads: two threads, each in any of the calls that take a lock.    *)
(***************************************************************************)

ThreadCalls ==
    {[op |-> "register", s |-> "Control+G", c |-> "quicknote"],
     [op |-> "unregister", s |-> "Control+G", c |-> ""],
     [op |-> "remember", s |-> "Control+G", c |-> "quicknote"],
     [op |-> "list", s |-> "", c |-> ""],
     [op |-> "enable", s |-> "ctrl", c |-> ""],
     [op |-> "disable", s |-> "ctrl", c |-> ""],
     [op |-> "dispatch", s |-> "Control+G", c |-> ""],
     [op |-> "dispatch", s |-> "Control+Backquote", c |-> ""]}

ThreadHosts == {HostAllOk}

ThreadSelections == {[ok |-> FALSE, text |-> ""]}

InitThreads ==
    /\ NoThreads
    /\ registry = {}
    /\ monitor = [enabled |-> FALSE, trigger_modifier |-> "ctrl"]
    /\ osBound = {}
    /\ windows = [l \in Labels |-> IF l = "main" THEN "hidden" ELSE "absent"]
    /\ size = [l \in QuickLabels |-> <<0, 0>>]
    /\ last = Call("init", "", "", "ok")

\* The steps of thread t other than waiting for a guard.
Advance(t) ==
    \/ Release(t)
    \/ Touch(t)
    \/ Decide(t)
    \/ Host(t, ThreadHosts, ThreadSelections)

NextThreads ==
    \E t \in Threads :
        \/ Start(t, ThreadCalls)
        \/ Acquire(t)
        \/ Advance(t)

\* A running thread takes its next step; a thread that waits for a guard
\* which is free again and again gets it.
SpecThreads ==
    /\ InitThreads
    /\ [][NextThreads]_vars
    /\ \A t \in Threads : WF_vars(Advance(t)) /\ SF_vars(Acquire(t))

(***************************************************************************)
(* SpecRace: two threads, each in a toggle of an auxiliary window or in    *)
(* the text-selection collaborator.                                        *)
(***************************************************************************)

RaceCalls ==
    {[op |-> "toggle", s |-> "quicknote", c |-> ""],
     [op |-> "toggle", s |-> "quicktool", c |-> ""],
     [op |-> "selection", s |-> "quicktool", c |-> ""]}

NextRace ==
    \E t \in Threads :
        \/ Start(t, RaceCalls)
        \/ Window(t, Selections)

SpecRace == InitThreads /\ [][NextRace]_vars

(***************************************************************************)
(* Properties                                                              *)
(***************************************************************************)

Pressed == last.op = "press"

SelectionInvoked ==
    \E i \in DOMAIN last.invoked : last.invoked[i] = "handle_text_selection"

\* The entry point a known command runs.
EntryPoint(cmd) ==
    CASE cmd = "quicknote" -> "toggle_quicknote_window"
      [] cmd = "quickai" -> "toggle_quickai_window"
      [] cmd = "quicktool" -> "toggle_quicktool_window"
      [] cmd = "text-selection" -> "handle_text_selection"

\* How the host spells a trigger modifier in a pressed string.
ModifierToken(m) ==
    CASE m = "ctrl" -> "Control"
      [] m = "shift" -> "Shift"
      [] m = "alt" -> "Alt"

\* The presses of modifier m with the backtick key, in its three spellings.
TriggerPresses(m) ==
    {ModifierToken(m) \o "+" \o k : k \in {Backtick, "Backquote", "Grave"}}

\* Registry entries whose key is equivalent to s (equal normalized forms).
Equivalent(map, s) == {e \in map : NormalizeTable[e[1]] = NormalizeTable[s]}

\* C1: while the monitor state has enabled = false, no press invokes the
\* text-selection collaborator.
C1_NoSelectionWhileDisabled ==
    (Pressed /\ ~monitor.enabled) => ~SelectionInvoked

\* C2: after an unregister(s) whose OS unbind failed, s has no entry in the
\* Registry.
C2_UnregisterClearsOnOsFailure ==
    (last.op = "unregister" /\ last.res = "os_error")
        => ~HasKey(registry, LowerTable[last.s])

\* C3: with monitoring enabled for modifier m, a press of m with the backtick
\* key (in any of its three spellings) is decided by the fast path and calls
\* the text-selection collaborator, whatever the Registry holds for that
\* combination.
C3_SelectionWins ==
    \A m \in {"ctrl", "shift", "alt"} :
        (Pressed /\ is_text_selection_enabled_for(m) /\ last.s \in TriggerPresses(m))
            => /\ last.res = "fast"
               /\ last.invoked # <<>>
               /\ last.invoked[1] = "handle_text_selection"

C3_Witness ==
    /\ Pressed
    /\ last.s \in TriggerPresses("ctrl")
    /\ is_text_selection_enabled_for("ctrl")
    /\ HasKey(registry, LowerTable[last.s])
    /\ Get(registry, LowerTable[last.s]) = "quicktool"
    /\ last.res = "fast"
    /\ last.invoked[1] = "handle_text_selection"

\* C4: a press that contains modifier m and a backtick spelling, with
\* monitoring enabled for m, is decided by the fast path and calls the
\* text-selection collaborator, also when it contains other modifiers.
C4_FastPathForAnyPressWithModifier ==
    \A m \in {"ctrl", "shift", "alt"} :
        (/\ Pressed
         /\ is_text_selection_enabled_for(m)
         /\ contains(last.s, ModifierToken(m))
         /\ HasBacktickKey(last.s))
            => /\ last.res = "fast"
               /\ last.invoked # <<>>
               /\ last.invoked[1] = "handle_text_selection"

\* C5: a successful register(s, c) leaves the pair (normalize(s), c) in the
\* Registry.
C5_RegisterStoresNormalizedKey ==
    (last.op = "register" /\ last.res = "ok")
        => <<NormalizeTable[last.s], last.c>> \in registry

\* C6: no two Registry entries with equivalent keys hold different commands.
C6_OneCommandPerNormalizedKey ==
    \A e1 \in registry, e2 \in registry :
        NormalizeTable[e1[1]] = NormalizeTable[e2[1]] => e1[2] = e2[2]

\* C7: after a successful register(s, c), whatever an earlier register wrote
\* for s, the Registry holds exactly one entry under the lower-cased s, and
\* its command is c (last write wins).
C7_LastWriteWins ==
    (last.op = "register" /\ last.res = "ok")
        => {e \in registry : e[1] = LowerTable[last.s]} = {<<LowerTable[last.s], last.c>>}

\* A successful register that replaced another command stored for the same s.
C7_Witness ==
    /\ last.op = "register"
    /\ last.res = "ok"
    /\ last.old \notin {"", last.c}
    /\ {e \in registry : e[1] = LowerTable[last.s]} = {<<LowerTable[last.s], last.c>>}

\* C8: after a successful unregister(s), the Registry holds no key equivalent
\* to s.
C8_UnregisterRemovesEquivalentKeys ==
    (last.op = "unregister" /\ last.res = "ok") => Equivalent(registry, last.s) = {}

\* C9: when the fast path did not fire and the pressed combination has an
\* exact entry, the press runs no command of any other entry.
C9_ExactMatchStops ==
    (Pressed /\ last.res # "fast" /\ HasKey(registry, LowerTable[last.s]))
        => (last.invoked = <<>> \/ last.key = LowerTable[last.s])

\* C10 as stated: a press p without an exact entry, equivalent to exactly one
\* registry key r, which maps to a known command c, runs c.
C10_FuzzyFallback ==
    \A e \in registry :
        (/\ Pressed
         /\ ~HasKey(registry, LowerTable[last.s])
         /\ Equivalent(registry, last.s) = {e}
         /\ e[2] \in KnownCommands)
            => /\ last.c = e[2]
               /\ last.invoked # <<>>
               /\ last.invoked[1] = EntryPoint(e[2])

\* C10 as amended: the same, for a press on which the text-selection fast
\* path does not fire; the fuzzy step then resolves to r.
C10_FuzzyFallbackAfterFastPath ==
    \A e \in registry :
        (/\ Pressed
         /\ ~FastPathFires(last.s)
         /\ ~HasKey(registry, LowerTable[last.s])
         /\ Equivalent(registry, last.s) = {e}
         /\ e[2] \in KnownCommands)
            => /\ last.res = "fuzzy"
               /\ last.key = e[1]
               /\ last.c = e[2]
               /\ last.invoked # <<>>
               /\ last.invoked[1] = EntryPoint(e[2])

C10_Witness ==
    /\ Pressed
    /\ last.res = "fuzzy"
    /\ ~HasKey(registry, LowerTable[last.s])
    /\ last.key # LowerTable[last.s]
    /\ Equivalent(registry, last.s) = {<<last.key, last.c>>}
    /\ last.invoked[1] = EntryPoint(last.c)

\* The pressed strings that differ from s in letter case only.
CaseVariants(s) == {q \in PressedStrings : LowerTable[q] = LowerTable[s]}

\* C11: a press on which the fast path does not fire and whose exact entry
\* holds a command that is none of quicknote, quickai, quicktool and
\* text-selection changes no window and no size and calls no collaborator,
\* whatever else the Registry holds.
C11_UnknownCommandNoEffect ==
    [][(/\ last'.op = "press"
        /\ ~FastPathFires(last'.s)
        /\ HasKey(registry, LowerTable[last'.s])
        /\ Get(registry, LowerTable[last'.s]) \notin KnownCommands)
            => /\ windows' = windows
               /\ size' = size
               /\ last'.invoked = <<>>
               /\ ~last'.emitted]_vars

\* C13: a press on which the fast path does not fire, that has no exact entry
\* and is equivalent to no registry key, calls nothing and leaves the
\* Registry, the monitor state, the bindings, the windows and the sizes
\* unchanged.
C13_NoMatchIsNoOp ==
    [][(/\ last'.op = "press"
        /\ ~FastPathFires(last'.s)
        /\ ~HasKey(registry, LowerTable[last'.s])
        /\ Equivalent(registry, last'.s) = {})
            => /\ last'.res = "none"
               /\ last'.invoked = <<>>
               /\ ~last'.emitted
               /\ UNCHANGED <<registry, monitor, osBound, windows, size>>]_vars

\* An unmatched press with a non-empty Registry and the quicktool window up.
C13_Witness ==
    /\ Pressed
    /\ last.res = "none"
    /\ registry # {}
    /\ ~FastPathFires(last.s)
    /\ ~HasKey(registry, LowerTable[last.s])
    /\ Equivalent(registry, last.s) = {}
    /\ windows["quicktool"] = "visible"
    /\ last.invoked = <<>>

\* C14: an event whose state is released calls nothing and changes nothing,
\* for every combination, Registry and monitor state.
C14_ReleasedIgnored ==
    [][last'.op = "released"
            => /\ last'.invoked = <<>>
               /\ ~last'.emitted
               /\ UNCHANGED <<registry, monitor, osBound, windows, size>>]_vars

\* A released event of a combination whose press would have run a command.
C14_Witness ==
    /\ last.op = "released"
    /\ last.invoked = <<>>
    /\ \/ FastPathFires(last.s)
       \/ /\ HasKey(registry, LowerTable[last.s])
          /\ Get(registry, LowerTable[last.s]) \in KnownCommands

\* C15: the command a press was resolved to is a command every pressed string
\* differing from it only in letter case resolves to, in the same Registry and
\* monitor state.
C15_CaseInsensitiveDispatch ==
    Pressed => \A q \in CaseVariants(last.s) :
                    last.c \in {r.cmd : r \in Resolutions(registry, q)}

\* The entry points of the Window Toggle Controller a press can go through.
ToggleEntryPoints ==
    {"toggle_quicknote_window", "toggle_quickai_window", "toggle_quicktool_window"}

\* A press resolved to quicknote, quickai or quicktool calls the toggle of
\* that label and changes no other window and no other window's size.
TogglesOwnWindow ==
    (last'.op = "press" /\ last'.c \in QuickLabels)
        => /\ last'.invoked = <<EntryPoint(last'.c)>>
           /\ \A l \in Labels \ {last'.c} : windows'[l] = windows[l]
           /\ \A l \in QuickLabels \ {last'.c} : size'[l] = size[l]

\* C12 as stated: a press resolved to quicknote, quickai or quicktool toggles
\* the window of that label and no other; a press resolved to text-selection
\* calls the text-selection collaborator and goes through no toggle of the
\* Window Toggle Controller.
C12_CommandTable ==
    [][/\ TogglesOwnWindow
       /\ (last'.op = "press" /\ last'.c = "text-selection")
            => /\ last'.invoked # <<>>
               /\ last'.invoked[1] = "handle_text_selection"
               /\ \A i \in DOMAIN last'.invoked : last'.invoked[i] \notin ToggleEntryPoints]_vars

\* C12 as amended: the same for quicknote, quickai and quicktool; a press
\* resolved to text-selection calls the text-selection collaborator, which
\* leaves every window but quicktool unchanged and goes through the Window
\* Toggle Controller only as toggle_quicktool_window, and only when the
\* quicktool window is absent.
C12_CommandTableCollaboratorCreates ==
    [][/\ TogglesOwnWindow
       /\ (last'.op = "press" /\ last'.c = "text-selection")
            => /\ last'.invoked # <<>>
               /\ last'.invoked[1] = "handle_text_selection"
               /\ \A i \in DOMAIN last'.invoked :
                    i > 1 => /\ last'.invoked[i] = "toggle_quicktool_window"
                             /\ windows["quicktool"] = "absent"
               /\ \A l \in Labels \ {"quicktool"} : windows'[l] = windows[l]
               /\ \A l \in QuickLabels \ {"quicktool"} : size'[l] = size[l]]_vars

\* A press resolved to text-selection whose collaborator created the
\* quicktool window, after a press resolved to quickai showed that window.
C12_Witness ==
    /\ Pressed
    /\ last.c = "text-selection"
    /\ last.invoked = <<"handle_text_selection", "toggle_quicktool_window">>
    /\ windows["quicktool"] = "visible"
    /\ windows["quickai"] = "visible"
    /\ windows["quicknote"] = "absent"

\* C16: with every host call succeeding, a toggle of quicknote, quickai or
\* quicktool creates an absent window and leaves it visible, makes a hidden
\* window visible and a visible window hidden; three toggles in a row from
\* absent give visible, hidden, visible.
C16_ToggleStateMachine ==
    /\ (last.op = "toggle" /\ last.host = HostAllOk)
        => /\ last.res = "ok"
           /\ last.old = "absent" => (last.invoked = <<"build">> /\ windows[last.s] = "visible")
           /\ last.old = "hidden" => windows[last.s] = "visible"
           /\ last.old = "visible" => windows[last.s] = "hidden"
    /\ \A l \in QuickLabels :
        LET w0 == [windows EXCEPT ![l] = "absent"]
            w1 == ToggleByLabel(w0, l, HostAllOk).w
            w2 == ToggleByLabel(w1, l, HostAllOk).w
            w3 == ToggleByLabel(w2, l, HostAllOk).w
        IN  <<w1[l], w2[l], w3[l]>> = <<"visible", "hidden", "visible">>

\* A toggle that showed a window an earlier toggle or close had hidden.
C16_Witness ==
    /\ last.op = "toggle"
    /\ last.host = HostAllOk
    /\ last.s = "quicknote"
    /\ last.old = "hidden"
    /\ windows["quicknote"] = "visible"

\* C17: a toggle of an existing window whose visibility query fails calls
\* show and set_focus and not hide, returns Ok, and leaves the window visible
\* (as it was, when the host's show fails too): it never hides it.
C17_QueryFailureShows ==
    (/\ last.op \in {"toggle", "toggle_editor"}
     /\ last.old # "absent"
     /\ ~last.host.vis)
        => /\ last.res = "ok"
           /\ \E i \in DOMAIN last.invoked : last.invoked[i] = "show"
           /\ \E i \in DOMAIN last.invoked : last.invoked[i] = "set_focus"
           /\ \A i \in DOMAIN last.invoked : last.invoked[i] # "hide"
           /\ windows[last.s] = IF last.host.show THEN "visible" ELSE last.old

\* A visible window toggled under a failing visibility query stays visible.
C17_Witness ==
    /\ last.op = "toggle"
    /\ last.old = "visible"
    /\ ~last.host.vis
    /\ last.res = "ok"
    /\ windows[last.s] = "visible"

\* C18: a window that exists (main, quicknote, quickai, quicktool) is never
\* absent again, whatever toggle, hide, resize, press or close request comes;
\* a close request is answered with prevent_close and hide and leaves the
\* window hidden (as it was, when the host's hide fails).
C18_WindowsNeverDestroyed ==
    [][/\ \A l \in Labels : windows[l] # "absent" => windows'[l] # "absent"
       /\ last'.op = "close"
            => /\ last'.invoked = <<"prevent_close", "hide">>
               /\ windows'[last'.s] =
                    IF last'.host.hide THEN "hidden" ELSE windows[last'.s]]_vars

\* A close request on a visible auxiliary window left it hidden.
C18_Witness ==
    /\ last.op = "close"
    /\ last.s \in QuickLabels
    /\ last.old = "visible"
    /\ windows[last.s] = "hidden"

\* C19: a resize of an existing quicknote or quickai window asks the host for
\* width 600 and height min(max(h, 100), 600); it returns Ok with that size in
\* place when the host accepts, and the host's error with the size unchanged
\* when it does not: no height is rejected.
C19_ResizeClamps ==
    [][(last'.op = "resize" /\ windows[last'.s] # "absent")
        => LET h == last'.height
               atLeast == IF h < 100 THEN 100 ELSE h
               clamped == IF atLeast > 600 THEN 600 ELSE atLeast
           IN  IF last'.c = "set_size_ok"
               THEN /\ last'.res = "ok"
                    /\ size'[last'.s] = <<600, clamped>>
               ELSE /\ last'.res = "host_error"
                    /\ size' = size]_vars

\* A resize to 900 that left the height at 600.
C19_Witness ==
    /\ last.op = "resize"
    /\ last.res = "ok"
    /\ last.height = 900
    /\ size[last.s] = <<600, 600>>

\* C20: a resize of an absent window returns window-not-found, creates no
\* window and changes no size; a toggle of an absent window returns an error
\* exactly when the host fails to build the window.
C20_AbsentWindow ==
    [][/\ (last'.op = "resize" /\ windows[last'.s] = "absent")
            => /\ last'.res = "not_found"
               /\ windows' = windows
               /\ size' = size
       /\ (last'.op = "toggle" /\ windows[last'.s] = "absent")
            => /\ last'.res = "error" <=> ~last'.host.create
               /\ last'.res = "error" => (windows' = windows /\ size' = size)]_vars

\* A resize of the absent quicknote window while quickai exists with its size.
C20_Witness ==
    /\ last.op = "resize"
    /\ last.s = "quicknote"
    /\ last.res = "not_found"
    /\ windows["quicknote"] = "absent"
    /\ windows["quickai"] # "absent"
    /\ size["quickai"] # <<0, 0>>
    /\ size["quicknote"] = <<0, 0>>

\* The key combinations the strings of the model parse to.
BindingUniverse == {ParseTable[s] : s \in AllStrings} \ {InvalidShortcut}

\* C21: a register(s, c) that fails leaves the Registry as it was: with an
\* unparsable s it returns the invalid-format error and asks nothing of the OS
\* facility; with the bind refused it returns the registration error.
C21_FailedRegisterKeepsRegistry ==
    [][last'.op = "register"
        => /\ last'.res \in {"invalid", "os_error"} => registry' = registry
           /\ ParseTable[last'.s] = InvalidShortcut
                => /\ last'.res = "invalid"
                   /\ last'.invoked = <<>>
                   /\ osBound' = osBound
           /\ (ParseTable[last'.s] # InvalidShortcut /\ ~last'.host.bind)
                => last'.res = "os_error"]_vars

\* A refused register(s, c) over an entry of s that holds another command.
C21_Witness ==
    /\ last.op = "register"
    /\ last.res = "os_error"
    /\ HasKey(registry, LowerTable[last.s])
    /\ Get(registry, LowerTable[last.s]) # last.c

C23_RememberFrame ==
    [][last'.op = "remember"
        => /\ registry' = {e \in registry : e[1] # LowerTable[last'.s]}
                            \cup {<<LowerTable[last'.s], last'.c>>}
           /\ UNCHANGED <<osBound, monitor, windows, size>>]_vars

\* A remember of a combination that is not bound, next to another entry and
\* another bound combination.
C23_Witness ==
    /\ last.op = "remember"
    /\ <<LowerTable[last.s], last.c>> \in registry
    /\ ParseTable[last.s] \notin osBound
    /\ osBound # {}
    /\ \E e \in registry : e[1] # LowerTable[last.s]

C27_TriggerModifierDomain ==
    monitor.trigger_modifier \in {"ctrl", "shift", "alt"}

\* The locks held just before event i of a trace.
HeldAt(trace, i) ==
    {l \in {"registry", "monitor"} :
        \E j \in 1..(i - 1) :
            /\ trace[j] = <<"lock", l>>
            /\ \A k \in (j + 1)..(i - 1) : trace[k] # <<"unlock", l>>}

\* C25: no call holds the Registry lock or the monitor lock at the moment it
\* calls into the windowing host.
C25_NoLockAcrossHostCall ==
    \A i \in DOMAIN last.trace :
        last.trace[i][1] = "host" => HeldAt(last.trace, i) = {}

\* C26: when the action a press chose fails (the host cannot create, show or
\* hide the window, or the selected text cannot be read), the handler still
\* returns through one of its resolution paths, and the Registry, the
\* monitor state and the bound shortcuts are what they were before the press.
C26_DispatchSwallowsFailures ==
    [][(last'.op = "press" /\ last'.failed) =>
            /\ last'.res \in {"fast", "exact", "fuzzy"}
            /\ registry' = registry
            /\ monitor' = monitor
            /\ osBound' = osBound]_vars

\* A press whose command failed was dispatched from a non-empty Registry.
C26_Witness ==
    /\ last.op = "press"
    /\ last.failed
    /\ last.res \in {"exact", "fuzzy"}
    /\ registry # {}

\* C28: the normalizer is idempotent: applied to its own output it returns
\* that output, for every input string.
C28_NormalizerIdempotent ==
    last.op = "normalize_again" => last.res = last.c

\* The orders a sequence can be put in.
Orderings(seq) ==
    {[i \in 1..Len(seq) |-> seq[p[i]]] :
        p \in {f \in [1..Len(seq) -> 1..Len(seq)] :
                \A i \in 1..Len(seq), j \in 1..Len(seq) : f[i] = f[j] => i = j}}

\* The strings that spell shortcut s with its modifiers in another order or
\* its letters in another case.
Respellings(s) ==
    LET parts == split(s)
        n == Len(parts)
    IN  UNION {Casings(Render(m, parts[n])) : m \in Orderings(SubSeq(parts, 1, n - 1))}

IsSorted(seq) == \A i \in 1..(Len(seq) - 1) : ~StrLess(seq[i + 1], seq[i])

\* The key token of a shortcut string: its last part in lower case, without "key".
KeyToken(s) == replace(to_lowercase(split(s)[Len(split(s))]), "key", "")

\* C29: every respelling of a shortcut (modifiers reordered, letters in
\* another case) normalizes to the same string; in that string the modifiers
\* come sorted, before the key token; a shortcut without modifiers normalizes
\* to its key token alone.
C29_OrderAndCaseInsensitive ==
    last.op = "normalize" =>
        LET out == split(last.res)
        IN  /\ \A v \in Respellings(last.s) : normalize(v) = last.res
            /\ Len(out) = Len(split(last.s))
            /\ IsSorted(SubSeq(out, 1, Len(out) - 1))
            /\ out[Len(out)] = KeyToken(last.s)

\* Shift+Control+G was normalized to control+shift+g.
C29_Witness ==
    /\ last.op = "normalize"
    /\ last.s = "Shift+Control+G"
    /\ last.res = "control+shift+g"

\* The shortcut s with Control written for each of its modifiers
\* CommandOrControl, Cmd and Command, and the letter alone for a key Key<letter>.
WithoutAliases(s) ==
    LET parts == split(s)
        n == Len(parts)
        mods == [i \in 1..(n - 1) |->
                    IF to_lowercase(parts[i]) \in {"commandorcontrol", "cmd", "command"}
                    THEN "Control" ELSE parts[i]]
        key == IF Len(parts[n]) = 4 /\ to_lowercase(SubSeq(parts[n], 1, 3)) = "key"
               THEN CharAt(parts[n], 4) ELSE parts[n]
    IN  Render(mods, key)

\* C30: a shortcut written with CommandOrControl, Cmd or Command normalizes
\* to what the same shortcut written with Control normalizes to, whatever
\* its key and its other modifiers; Key<letter> normalizes as the letter.
C30_AliasEquivalence ==
    last.op = "normalize" => normalize(WithoutAliases(last.s)) = last.res

\* Cmd+Shift+KeyG was normalized to what Control+Shift+G normalizes to.
C30_Witness ==
    /\ last.op = "normalize"
    /\ last.s = "Cmd+Shift+KeyG"
    /\ WithoutAliases(last.s) = "Control+Shift+G"
    /\ last.res = "control+shift+g"

\* A selection handle_text_selection goes on with: read, and longer than one
\* character once trimmed.
UsableSelection(sel) == sel.ok /\ Len(trim(sel.text)) > 1

\* The host carried out what showing or creating the quicktool window takes.
ShowSucceeds(w, host) ==
    IF w["quicktool"] = "absent" THEN host.create
    ELSE host.pos /\ host.show /\ host.focus

\* What the selection trigger does from the present windows, for a usable
\* selection and host answers host, when the window is visible.
TriggerOnVisible(sel, host, queryAnswered) ==
    LET h == handle_text_selection(windows, sel, host)
    IN  (windows["quicktool"] = "visible" /\ queryAnswered) =>
            /\ ~h.emitted
            /\ h.w = IF host.hide THEN [windows EXCEPT !["quicktool"] = "hidden"] ELSE windows

\* The same when the window is to be shown or created.
TriggerOnHidden(sel, host, shows) ==
    LET h == handle_text_selection(windows, sel, host)
    IN  shows =>
            /\ h.emitted <=> ShowSucceeds(windows, host)
            /\ h.emitted => h.w["quicktool"] = "visible"
            /\ ~h.emitted => (h.w["quicktool"] = "visible" <=>
                                (windows["quicktool"] = "visible"
                                    \/ (windows["quicktool"] = "hidden" /\ host.pos /\ host.show)))

\* A press never leaves an emitted event without a captured selection and a
\* visible quicktool window.
EmittedAfterShown ==
    (last.op = "press" /\ last.emitted) =>
        /\ last.invoked # <<>>
        /\ last.invoked[1] = "handle_text_selection"
        /\ windows["quicktool"] = "visible"

\* C31 as stated: the event is emitted only after the text was captured and
\* the quicktool window shown or created; with usable text a visible window
\* is hidden and no event is emitted; a hidden or absent window becomes
\* visible and the event is emitted, unless showing or creating fails.
C31_EmitAfterShown ==
    /\ EmittedAfterShown
    /\ \A sel \in {s \in Selections : UsableSelection(s)}, host \in HostOutcomes :
        /\ TriggerOnVisible(sel, host, TRUE)
        /\ TriggerOnHidden(sel, host, windows["quicktool"] # "visible")

\* C31, with the visibility query in it: a visible window is hidden, and no
\* event emitted, when the host's visibility query reports it visible; the
\* window is shown or created, and the event emitted afterwards, when it is
\* hidden or absent or the query fails; no event is emitted when positioning,
\* showing, focusing or creating fails.
C31_EmitAfterShownOrQueryFailure ==
    /\ EmittedAfterShown
    /\ \A sel \in {s \in Selections : UsableSelection(s)}, host \in HostOutcomes :
        /\ TriggerOnVisible(sel, host, host.vis)
        /\ TriggerOnHidden(sel, host, windows["quicktool"] # "visible" \/ ~host.vis)

\* The trigger showed a hidden quicktool window and emitted the event.
C31_Witness ==
    /\ last.op = "press"
    /\ last.invoked = <<"handle_text_selection">>
    /\ last.emitted
    /\ windows["quicktool"] = "visible"

\* The labels whose window state a step changes.
ChangedWindows == {l \in Labels : windows'[l] # windows[l]}

\* C32 as stated: a press causes at most one call, of a window toggle or of
\* the text-selection collaborator, never both and never two.
C32_AtMostOneAction ==
    [][last'.op = "press" =>
            /\ Len(last'.invoked) <= 1
            /\ Cardinality(ChangedWindows) <= 1]_vars

\* C32, with the collaborator's own call in it: the handler calls at most one
\* of the three window toggles and the text-selection collaborator, whatever
\* the Registry and the monitor state; at most one window changes state; the
\* one further call a press can cause is the toggle of the quicktool window
\* that the collaborator makes to create that window when it is absent.
C32_AtMostOneActionByHandler ==
    [][last'.op = "press" =>
            /\ Len(last'.invoked) <= 2
            /\ last'.invoked # <<>> => last'.invoked[1] = EntryPoint(last'.c)
            /\ Len(last'.invoked) = 2 =>
                    /\ last'.invoked = <<"handle_text_selection", "toggle_quicktool_window">>
                    /\ windows["quicktool"] = "absent"
            /\ Cardinality(ChangedWindows) <= 1
            /\ ChangedWindows # {} => last'.invoked # <<>>]_vars

\* A press ran one command while two Registry keys were equivalent to it.
C32_Witness ==
    /\ last.op = "press"
    /\ Cardinality(Equivalent(registry, last.s)) >= 2
    /\ Len(last.invoked) = 1
    /\ monitor.enabled

\* C33: an enabling set_text_selection_monitoring that returns an error
\* because the host refused the bind leaves the monitor state (enabled flag
\* and trigger modifier) and the Registry as they were before the call.
C33_FailedEnableChangesNothing ==
    [][(last'.op = "set_monitoring" /\ last'.c = "enable" /\ last'.res = "os_error") =>
            /\ monitor' = monitor
            /\ registry' = registry]_vars

\* Monitoring is on for modifier m and its trigger shortcut is bound and has
\* its Registry entry, as a successful enabling call leaves them.
EnabledFor(m) ==
    /\ is_text_selection_enabled_for(m)
    /\ ParseTable[TriggerShortcut(m)] \in osBound
    /\ <<LowerTable[TriggerShortcut(m)], "text-selection">> \in registry

\* C34: once monitoring has been enabled for a modifier m2, a press of
\* another modifier m1 with Backquote (m1 enabled before) does not call the
\* text-selection collaborator: the selection path fires on a
\* modifier-plus-backtick press only for the configured trigger modifier.
C34_OnlyConfiguredModifierFires ==
    \A m1 \in {"ctrl", "shift", "alt"}, m2 \in {"ctrl", "shift", "alt"} :
        (m1 # m2 /\ Pressed /\ EnabledFor(m2) /\ last.s = TriggerShortcut(m1))
            => ~SelectionInvoked

\* C35: when register(s, c) fails with a registration error while s was
\* bound by an earlier successful register (s is bound and has its Registry
\* entry), s is still bound at the OS facility after the failed call.
C35_FailedRegisterKeepsBinding ==
    [][(/\ last'.op = "register"
        /\ last'.res = "os_error"
        /\ ParseTable[last'.s] \in osBound
        /\ HasKey(registry, LowerTable[last'.s])) =>
            ParseTable[last'.s] \in osBound']_vars

\* The thread waits for a guard that another thread (or itself) holds.
Waiting(t) ==
    /\ Running(t)
    /\ Instr(t)[1] = "lock"
    /\ locks[Instr(t)[2]] # "free"

\* Some threads wait for guards that only threads among them hold.
Deadlocked ==
    \E W \in SUBSET Threads :
        /\ W # {}
        /\ \A t \in W : Waiting(t) /\ locks[Instr(t)[2]] \in W

\* C36: whatever the interleaving of register, unregister, remember,
\* list_registered, set_text_selection_monitoring and dispatch on two
\* threads, no state is reached in which threads wait for the Registry guard
\* and the monitor guard held among themselves, and every call that was
\* started returns.
C36_NoDeadlock ==
    /\ []~Deadlocked
    /\ \A t \in Threads : Running(t) ~> ~Running(t)

\* One thread holds the monitor guard inside set_text_selection_monitoring
\* and waits for the Registry guard, which the other thread holds.
C36_Witness ==
    \E t \in Threads, u \in Threads :
        /\ threads[t].op = "enable"
        /\ locks["monitor"] = t
        /\ Waiting(t)
        /\ locks["registry"] = u
        /\ u # t

\* Threads t and u have both returned from a toggle of the same window,
\* which each of them had found absent.
BothToggledFromAbsent(t, u) ==
    /\ t # u
    /\ ~Running(t) /\ ~Running(u)
    /\ threads[t].op = "toggle" /\ threads[u].op = "toggle"
    /\ threads[t].s = threads[u].s
    /\ threads[t].local = "absent" /\ threads[u].local = "absent"

\* C37: two toggles of the same window that run at the same time from the
\* window absent both return Ok and leave what the two calls one after the
\* other leave: the window exists and is hidden.
C37_ConcurrentTogglesSerialize ==
    \A t \in Threads, u \in Threads :
        BothToggledFromAbsent(t, u) =>
            /\ threads[t].res = "ok"
            /\ threads[u].res = "ok"
            /\ windows[threads[t].s] = "hidden"

\* C38: at the moment handle_text_selection emits text-selection-detected
\* the quicktool window is visible, also with a toggle of that window or
\* another selection trigger running at the same time.
C38_VisibleAtEmit ==
    last.op = "emit" => last.old = "visible"

\* The answers of the selection service that give no usable text: no answer,
\* an empty text, blanks only, one character between blanks.
UnusableSelections ==
    {sel \in Selections \cup {[ok |-> TRUE, text |-> ""]} : ~UsableSelection(sel)}

\* What the collaborator does from windows w when the text is unusable, over
\* the answers the host would give (a table, computed once).
UnusableOutcomes ==
    LET F(w) == {handle_text_selection(w, sel, host) :
                    sel \in UnusableSelections, host \in HostOutcomes}
    IN  Tabulate(F, WindowStates)

\* C39: when the selection trigger fires and the captured text is
\* unavailable, empty or of trimmed length at most 1, handle_text_selection
\* changes no window (none is created, shown, hidden or moved: no host call
\* on a window is made and no toggle is called) and emits no event, whatever
\* the windows are and whatever the host would answer; a press that ran the
\* collaborator alone while the quicktool window is absent changed nothing.
C39_UnusableSelectionNoEffect ==
    [][/\ \A h \in UnusableOutcomes[windows] :
            /\ h.w = windows
            /\ SizeAfter(windows, h.w, size) = size
            /\ h.calls = <<>>
            /\ ~h.emitted
       /\ (/\ last'.op = "press"
           /\ last'.invoked = <<"handle_text_selection">>
           /\ windows["quicktool"] = "absent") =>
                /\ UNCHANGED <<windows, size>>
                /\ ~last'.emitted]_vars

\* The trigger fired with no usable text while the quicktool window was
\* absent: the collaborator returned without building it.
C39_Witness ==
    /\ last.op = "press"
    /\ last.invoked = <<"handle_text_selection">>
    /\ windows["quicktool"] = "absent"
    /\ ~last.emitted

\* The names in a sequence of host calls.
Called(calls) == {calls[i] : i \in 1..Len(calls)}

\* toggle_editor_window from windows w with the main window present: what it
\* leaves and which calls it makes on the window.
EditorToggled(w, focused, host) ==
    LET t == toggle_editor_window(w, focused, host)
        seen == host.vis /\ w["main"] = "visible"
    IN  /\ t.ok
        /\ \A l \in Labels \ {"main"} : t.w[l] = w[l]
        /\ t.w["main"] # "absent"
        /\ (seen /\ focused) =>
                /\ t.host_calls = <<"is_visible", "is_focused", "hide">>
                /\ t.w["main"] = IF host.hide THEN "hidden" ELSE "visible"
        /\ (seen /\ ~focused) =>
                /\ t.w = w
                /\ "set_focus" \in Called(t.host_calls)
                /\ Called(t.host_calls) \cap {"hide", "show"} = {}
        /\ ~seen =>
                /\ {"show", "set_focus"} \subseteq Called(t.host_calls)
                /\ "hide" \notin Called(t.host_calls)
                /\ t.w["main"] = IF host.show THEN "visible" ELSE w["main"]

\* toggle_editor_window when there is no main window.
EditorAbsent(w, focused, host) ==
    LET gone == [w EXCEPT !["main"] = "absent"]
        t == toggle_editor_window(gone, focused, host)
    IN  ~t.ok /\ t.w = gone /\ t.host_calls = <<>>

\* C40: toggle_editor_window hides a main window that is visible and has
\* the focus (it calls hide, and the window is hidden when the host carries
\* the call out); it leaves a visible window without the focus visible and
\* calls set_focus on it; on a hidden window, or when the visibility query
\* fails, it calls show and set_focus and never hide (the window is visible
\* when the host carries show out); it never builds the main window: with the
\* window absent it returns an error, makes no call and changes nothing; no
\* other window changes.
C40_EditorToggle ==
    /\ \A focused \in BOOLEAN, host \in HostOutcomes :
            /\ EditorToggled(windows, focused, host)
            /\ EditorAbsent(windows, focused, host)
    /\ last.op = "toggle_editor" =>
            /\ last.res = "ok"
            /\ last.old # "absent" /\ windows["main"] # "absent"
            /\ windows["main"] = "hidden" =>
                    \/ "hide" \in Called(last.invoked) /\ last.old = "visible"
                    \/ last.old = "hidden" /\ ~(last.host.vis /\ last.host.show)
            /\ windows["main"] # last.old =>
                    Called(last.invoked) \cap {"hide", "show"} # {}

\* A visible main window with the focus was hidden by the toggle.
C40_Witness ==
    /\ last.op = "toggle_editor"
    /\ last.old = "visible"
    /\ last.invoked = <<"is_visible", "is_focused", "hide">>
    /\ windows["main"] = "hidden"

====
